---- MODULE Spec2Model ----
(***************************************************************************)
(* Model of the Public Suffix List linter (linter/pslint.py) and of the    *)
(* tools around the list: parse_domain and check_dns_status of             *)
(* tools/private_domains_checker and psl_diff of tools/pr_checker.         *)
(*                                                                         *)
(* A line of text is a sequence of characters.  An ASCII character is the  *)
(* one-character string holding it; a non-ASCII character is named by its  *)
(* code point ("U+00E9").  The lone surrogate "U+DC80" is what the         *)
(* surrogateescape error handler of open() makes of the undecodable byte   *)
(* 0x80.                                                                   *)
(***************************************************************************)
EXTENDS Integers, Sequences, FiniteSets, TLC

VARIABLES
    pc,                \* "scan" (in the loop of lint_psl), "linted", "exited"
    lines,             \* the input lines consumed so far (a prefix of `lines`)
    nline,             \* global nline
    orig_line,         \* global orig_line (<<>> stands for "" and for None)
    warnings,          \* global warnings
    errors,            \* global errors
    skip_order_check,  \* global skip_order_check
    line2number,       \* lint_psl: line2number
    line2flag,         \* lint_psl: line2flag
    group,             \* lint_psl: group
    section,           \* lint_psl: section
    icann_sections,    \* lint_psl: icann_sections
    private_sections,  \* lint_psl: private_sections
    out,               \* the diagnostics printed so far, in order
    trace,             \* per consumed line: the section before and after it,
                       \* and the diagnostics printed for it
    exception,         \* "none", or the exception that ended the run
    exit_status,       \* the status of the process once pc = "exited", else -1
    icann_domains,     \* PSLPrivateDomainsProcessor.icann_domains
    parsed,            \* the last call of parse_domain: its argument and outcome
    attempt,           \* check_dns_status: the attempts made so far
    replies,           \* check_dns_status: what requests.get gave last, per url
    responses,         \* check_dns_status: what make_dns_request returned last
    dns_status,        \* check_dns_status: its return value, "running" before
    current_file,      \* psl_diff: the lines of the file current_filename
    pull_request_file, \* psl_diff: the lines of the file pull_request_filename
    diff,              \* psl_diff: the calls made, each with its arguments
                       \* and the pair it returned
    suffix_1,          \* suffix_is_less: the first label list
    suffix_2,          \* suffix_is_less: the second label list
    less,              \* suffix_is_less: what it returned, in trie_script.py
                       \* and in tools/alphabet_script.py (<<>> before the call)
    attempt_status,    \* the status each attempt printed ("Attempt n, ... Status: s")
    psl_domain,        \* check_psl_txt_record: domain, once prepared
    psl_txt_status,    \* check_psl_txt_record: its return value, "running" before
    psl_data,          \* run: the lines of the list that fetch_psl_data returned
    raw_domains,       \* run: raw_domains
    domains,           \* run: domains
    data               \* process_domains: data, of each row the arguments of
                       \* its checks

lintVars == <<pc, lines, nline, orig_line, warnings, errors, skip_order_check,
              line2number, line2flag, group, section, icann_sections,
              private_sections, out, trace, exception, exit_status>>

suffixVars == <<suffix_1, suffix_2, less>>
txtVars == <<psl_domain, psl_txt_status>>
runVars == <<psl_data, raw_domains, domains, data>>

toolVars == <<icann_domains, parsed, attempt, replies, responses, dns_status,
              current_file, pull_request_file, diff, attempt_status,
              suffixVars, txtVars, runVars>>

vars == <<lintVars, toolVars>>

\* The longest input, in lines, that is explored.
MaxLines == 4
\* The longest file, in lines, that psl_diff is given.
MaxFileLines == 2

-----------------------------------------------------------------------------
(* Characters *)

UPPER == <<"A","B","C","D","E","F","G","H","I","J","K","L","M",
           "N","O","P","Q","R","S","T","U","V","W","X","Y","Z">>
LOWER == <<"a","b","c","d","e","f","g","h","i","j","k","l","m",
           "n","o","p","q","r","s","t","u","v","w","x","y","z">>
DIGITS == {"0","1","2","3","4","5","6","7","8","9"}

Range(s) == {s[i] : i \in DOMAIN s}

\* The non-ASCII characters of the model: e-acute, E-acute, the fi ligature,
\* the Angstrom sign, A-ring, a-ring, and the lone surrogate of byte 0x80.
NonAsciiLetters == {"U+00E9", "U+00C9", "U+FB01", "U+212B", "U+00C5", "U+00E5"}
Surrogates == {"U+DC80"}

\* ord(c) < 128
IsAscii(c) == c \notin NonAsciiLetters \cup Surrogates

\* str.isspace, on the characters str.strip() removes
IsSpace(c) == c \in {" ", "\t", "\r", "\n", "\f"}

\* str.isalnum
IsAlnum(c) == c \in Range(UPPER) \cup Range(LOWER) \cup DIGITS \cup NonAsciiLetters

\* str.lower, one character
LowerChar(c) ==
    IF c \in Range(UPPER)
    THEN LOWER[CHOOSE i \in DOMAIN UPPER : UPPER[i] = c]
    ELSE CASE c = "U+00C9" -> "U+00E9"
           [] c = "U+00C5" -> "U+00E5"
           [] c = "U+212B" -> "U+00E5"
           [] OTHER -> c

\* unicodedata.normalize("NFKC", c), one character: compatibility characters
\* are replaced by their decomposition
NFKCChar(c) ==
    CASE c = "U+FB01" -> <<"f", "i">>
      [] c = "U+212B" -> <<"U+00C5">>
      [] OTHER -> <<c>>

-----------------------------------------------------------------------------
(* Strings *)

RECURSIVE Concat(_)
Concat(ss) == IF ss = <<>> THEN <<>> ELSE Head(ss) \o Concat(Tail(ss))

Lower(s) == [i \in DOMAIN s |-> LowerChar(s[i])]
NFKC(s) == Concat([i \in DOMAIN s |-> NFKCChar(s[i])])

\* (an encoder that takes every character)
EncodesAnything(s) == Len(s) >= 0

\* s.encode('utf-8') raises UnicodeEncodeError on a lone surrogate
EncodesAsUTF8(s) == \A i \in DOMAIN s : s[i] \notin Surrogates

Min(a, b) == IF a < b THEN a ELSE b

\* s[a:b] for 0 <= a <= b (Python clamps the slice to the string)
Slice(s, a, b) == SubSeq(s, a + 1, Min(b, Len(s)))
\* s[a:]
SliceFrom(s, a) == SubSeq(s, a + 1, Len(s))

RECURSIVE LStrip(_)
LStrip(s) == IF s # <<>> /\ IsSpace(Head(s)) THEN LStrip(Tail(s)) ELSE s
RECURSIVE RStrip(_)
RStrip(s) ==
    IF s # <<>> /\ IsSpace(s[Len(s)]) THEN RStrip(SubSeq(s, 1, Len(s) - 1)) ELSE s
\* str.strip()
Strip(s) == RStrip(LStrip(s))

\* s.replace(c, r) for a one-character c
Replace(s, c, r) == Concat([i \in DOMAIN s |-> IF s[i] = c THEN r ELSE <<s[i]>>])

\* s.split('.'): never empty, "" gives [""]
RECURSIVE Split(_)
Split(s) ==
    IF \A i \in DOMAIN s : s[i] # "."
    THEN <<s>>
    ELSE LET k == CHOOSE i \in DOMAIN s :
                      s[i] = "." /\ \A j \in 1..(i - 1) : s[j] # "."
         IN <<SubSeq(s, 1, k - 1)>> \o Split(SubSeq(s, k + 1, Len(s)))

\* ".".join(labels)
RECURSIVE Join(_)
Join(ls) ==
    IF Len(ls) = 0 THEN <<>>
    ELSE IF Len(ls) = 1 THEN ls[1]
    ELSE ls[1] \o <<".">> \o Join(Tail(ls))

Reversed(s) == [i \in DOMAIN s |-> s[Len(s) + 1 - i]]

\* sub in s, for a string sub
Contains(s, sub) ==
    \E i \in 0..(Len(s) - Len(sub)) : SubSeq(s, i + 1, i + Len(sub)) = sub

-----------------------------------------------------------------------------
(* The marker lines and the flags of lint_psl *)

BEGIN_ICANN == <<"/","/"," ","=","=","=","B","E","G","I","N"," ","I","C","A","N","N"," ","D","O","M","A","I","N","S","=","=","=">>
BEGIN_PRIVATE == <<"/","/"," ","=","=","=","B","E","G","I","N"," ","P","R","I","V","A","T","E"," ","D","O","M","A","I","N","S","=","=","=">>
END_ICANN == <<"/","/"," ","=","=","=","E","N","D"," ","I","C","A","N","N"," ","D","O","M","A","I","N","S","=","=","=">>
END_PRIVATE == <<"/","/"," ","=","=","=","E","N","D"," ","P","R","I","V","A","T","E"," ","D","O","M","A","I","N","S","=","=","=">>
MARK_BEGIN == <<"=","=","=","B","E","G","I","N">>
MARK_END == <<"=","=","=","E","N","D">>

PSL_FLAG_EXCEPTION == 1
PSL_FLAG_WILDCARD == 2
PSL_FLAG_ICANN == 4
PSL_FLAG_PRIVATE == 8
PSL_FLAG_PLAIN == 16

\* flags & bit, for a one-bit value
HasFlag(flags, bit) == (flags \div bit) % 2 = 1
\* flags | bit
SetFlag(flags, bit) == IF HasFlag(flags, bit) THEN flags ELSE flags + bit

-----------------------------------------------------------------------------
(* Diagnostics: what warning() and error() print.  arg is the number the   *)
(* message is formatted with (0 when it has none), echo the orig_line that *)
(* is appended (<<>> when orig_line is empty or None).                     *)

Diag(sev, n, msg, arg, echo) ==
    [sev |-> sev, nline |-> n, msg |-> msg, arg |-> arg, echo |-> echo]

Count(ds, sev) == Cardinality({i \in DOMAIN ds : ds[i].sev = sev})

\* warning(msg): printed with the global nline and orig_line; warnings += 1
Warning(n, msg, arg, echo) == Diag("warning", n, msg, arg, echo)

\* error(msg): printed with the global nline and orig_line; errors += 1.
\* The assignment to skip_order_check is commented out in the source.
Error(n, msg, arg, echo) == Diag("error", n, msg, arg, echo)

-----------------------------------------------------------------------------
(* lint_psl, the body of its loop.  Each part yields the diagnostics it    *)
(* prints, in order.                                                       *)

\* The whitespace check: the line as it is echoed (tab and CR made visible
\* when the line has leading or trailing whitespace).
ShownLine(l) ==
    IF Strip(l) # l
    THEN Replace(Replace(l, "\t", <<"\\", "t">>), "\r", <<"^", "M">>)
    ELSE l

WhitespaceDiags(l, n) ==
    IF Strip(l) # l
    THEN <<Warning(n, "Leading/Trailing whitespace", 0, ShownLine(l))>>
    ELSE <<>>

\* CommentSection with nested sections: a BEGIN marker of the other section
\* switches to it (the last marker wins).
CommentSectionNested(sec, line) ==
    IF line = BEGIN_ICANN THEN PSL_FLAG_ICANN
    ELSE IF line = BEGIN_PRIVATE THEN PSL_FLAG_PRIVATE
    ELSE IF sec = PSL_FLAG_ICANN /\ line = END_ICANN THEN 0
    ELSE IF sec = PSL_FLAG_PRIVATE /\ line = END_PRIVATE THEN 0
    ELSE sec

\* A comment line: the section it leaves current.
CommentSection(sec, line) ==
    IF sec = 0 THEN
        IF line = BEGIN_ICANN THEN PSL_FLAG_ICANN
        ELSE IF line = BEGIN_PRIVATE THEN PSL_FLAG_PRIVATE
        ELSE sec
    ELSE IF sec = PSL_FLAG_ICANN THEN
        IF line = END_ICANN THEN 0 ELSE sec
    ELSE IF sec = PSL_FLAG_PRIVATE THEN
        IF line = END_PRIVATE THEN 0 ELSE sec
    ELSE sec

\* CommentDiags without the checks inside a section: only markers outside of
\* a section are reported.
CommentDiagsOutsideOnly(sec, line, n, echo) ==
    IF sec = 0 /\ line # BEGIN_ICANN /\ line # BEGIN_PRIVATE THEN
        IF Slice(line, 3, 11) = MARK_BEGIN
            THEN <<Error(n, "Unexpected begin of unknown section", 0, echo)>>
        ELSE IF Slice(line, 3, 9) = MARK_END
            THEN <<Error(n, "End of section without previous begin", 0, echo)>>
        ELSE <<>>
    ELSE <<>>

\* CommentDiags looking for the marker anywhere in the comment, not at
\* characters 3..10 and 3..8.
CommentDiagsAnywhere(sec, line, n, echo) ==
    IF (sec = 0 /\ line \in {BEGIN_ICANN, BEGIN_PRIVATE}) \/ (sec = PSL_FLAG_ICANN /\ line = END_ICANN) \/ (sec = PSL_FLAG_PRIVATE /\ line = END_PRIVATE) THEN <<>>
    ELSE IF Contains(line, MARK_BEGIN)
        THEN <<Error(n, "Unexpected begin of section", 0, echo)>>
    ELSE IF Contains(line, MARK_END)
        THEN <<Error(n, "Unexpected end of section", 0, echo)>>
    ELSE <<>>

\* A comment line: the errors it reports.
CommentDiags(sec, line, n, echo) ==
    IF sec = 0 THEN
        IF line = BEGIN_ICANN THEN <<>>
        ELSE IF line = BEGIN_PRIVATE THEN <<>>
        ELSE IF Slice(line, 3, 11) = MARK_BEGIN
            THEN <<Error(n, "Unexpected begin of unknown section", 0, echo)>>
        ELSE IF Slice(line, 3, 9) = MARK_END
            THEN <<Error(n, "End of section without previous begin", 0, echo)>>
        ELSE <<>>
    ELSE IF sec = PSL_FLAG_ICANN THEN
        IF line = END_ICANN THEN <<>>
        ELSE IF Slice(line, 3, 11) = MARK_BEGIN
            THEN <<Error(n, "Unexpected begin of section: ", 0, echo)>>
        ELSE IF Slice(line, 3, 9) = MARK_END
            THEN <<Error(n, "Unexpected end of section", 0, echo)>>
        ELSE <<>>
    ELSE IF sec = PSL_FLAG_PRIVATE THEN
        IF line = END_PRIVATE THEN <<>>
        ELSE IF Slice(line, 3, 11) = MARK_BEGIN
            THEN <<Error(n, "Unexpected begin of section", 0, echo)>>
        ELSE IF Slice(line, 3, 9) = MARK_END
            THEN <<Error(n, "Unexpected end of section", 0, echo)>>
        ELSE <<>>
    ELSE <<>>

\* (no test of the section: a rule outside of a section is not reported)
OutsideDiagsNone(sec, n, echo) == SubSeq(<<Error(n, "Rule outside of section", 0, echo)>>, 1, 0)

\* No rule must be outside of a section.
OutsideDiags(sec, n, echo) ==
    IF sec = 0 THEN <<Error(n, "Rule outside of section", 0, echo)>> ELSE <<>>

\* FormDiags with NFC in place of NFKC: unicodedata.normalize("NFC", line)
\* composes canonically and leaves compatibility characters (the fi ligature)
\* alone.
FormDiagsNFC(line, n, echo) ==
    (IF Concat([i \in DOMAIN line |->
                   IF line[i] = "U+212B" THEN <<"U+00C5">> ELSE <<line[i]>>]) # line
     THEN <<Error(n, "Rule must be NFKC", 0, echo)>> ELSE <<>>)
    \o
    (IF line # Lower(line) THEN <<Error(n, "Rule must be lowercase", 0, echo)>> ELSE <<>>)

\* Rules must be NFKC and lowercase.
FormDiags(line, n, echo) ==
    (IF NFKC(line) # line THEN <<Error(n, "Rule must be NFKC", 0, echo)>> ELSE <<>>)
    \o
    (IF line # Lower(line) THEN <<Error(n, "Rule must be lowercase", 0, echo)>> ELSE <<>>)

\* Strip leading wildcards: the flags and the rest of the line after the
\* test for '*.'.  (WildFlagsAssigned: flags = in place of flags |=, which
\* drops the section flag of a wildcard rule.)
WildFlagsAssigned(sec, line) ==
    IF Slice(line, 0, 2) = <<"*", ".">> THEN PSL_FLAG_WILDCARD ELSE sec
WildFlags(sec, line) ==
    IF Slice(line, 0, 2) = <<"*", ".">> THEN SetFlag(sec, PSL_FLAG_WILDCARD) ELSE sec
WildRest(line) ==
    IF Slice(line, 0, 2) = <<"*", ".">> THEN SliceFrom(line, 2) ELSE line

\* RuleFlags with the test for '!' made only when the line has no '*.'
\* prefix: elif in place of the second if.
RuleFlagsExclusive(sec, line) ==
    IF Slice(line, 0, 2) = <<"*", ".">> THEN SetFlag(sec, PSL_FLAG_WILDCARD)
    ELSE IF line[1] = "!" THEN SetFlag(sec, PSL_FLAG_EXCEPTION)
    ELSE SetFlag(sec, PSL_FLAG_PLAIN)

\* The test of line[0] for '!', on a non-empty rest.
RuleFlags(sec, line) ==
    IF WildRest(line)[1] = "!"
    THEN SetFlag(WildFlags(sec, line), PSL_FLAG_EXCEPTION)
    ELSE SetFlag(WildFlags(sec, line), PSL_FLAG_PLAIN)
\* The key of the rule in line2number and line2flag.
RuleText(line) ==
    IF WildRest(line)[1] = "!" THEN SliceFrom(WildRest(line), 1) ELSE WildRest(line)

\* ExceptionDiags without the test of the Wildcard flag: any previous entry
\* for the suffix is taken for a wildcard.
ExceptionDiagsAnyEntry(flags, labels, l2f, n, echo) ==
    IF HasFlag(flags, PSL_FLAG_EXCEPTION) /\ Len(labels) > 1
    THEN IF Join(Tail(labels)) \notin DOMAIN l2f
         THEN <<Error(n, "Exception without previous wildcard", 0, echo)>>
         ELSE <<>>
    ELSE <<>>

\* ExceptionDiags looking up the whole exception (labels, not labels[1:]).
ExceptionDiagsWholeRule(flags, labels, l2f, n, echo) ==
    IF HasFlag(flags, PSL_FLAG_EXCEPTION) /\ Len(labels) > 1
    THEN LET domain == Join(labels)
         IN IF domain \notin DOMAIN l2f
            THEN <<Error(n, "Exception without previous wildcard", 0, echo)>>
            ELSE IF ~HasFlag(l2f[domain], PSL_FLAG_WILDCARD)
            THEN <<Error(n, "Exception without previous wildcard", 0, echo)>>
            ELSE <<>>
    ELSE <<>>

\* An exception needs a previous wildcard.
ExceptionDiags(flags, labels, l2f, n, echo) ==
    IF HasFlag(flags, PSL_FLAG_EXCEPTION) /\ Len(labels) > 1
    THEN LET domain == Join(Tail(labels))
         IN IF domain \notin DOMAIN l2f
            THEN <<Error(n, "Exception without previous wildcard", 0, echo)>>
            ELSE IF ~HasFlag(l2f[domain], PSL_FLAG_WILDCARD)
            THEN <<Error(n, "Exception without previous wildcard", 0, echo)>>
            ELSE <<>>
    ELSE <<>>

\* LabelDiags without the continue after 'Double minus found': the
\* characters of such a label are checked too.
LabelDiagsFallThrough(label, n, echo) ==
    IF label = <<>> THEN <<Error(n, "Leading/trailing or multiple dot", 0, echo)>>
    ELSE IF Slice(label, 0, 4) = <<"x", "n", "-", "-">>
        THEN <<Error(n, "Punycode found", 0, echo)>>
    ELSE (IF Contains(label, <<"-", "-">>)
          THEN <<Error(n, "Double minus found", 0, echo)>> ELSE <<>>)
         \o
         (IF \E i \in DOMAIN label :
                 ~IsAlnum(label[i]) /\ label[i] # "-" /\ IsAscii(label[i])
          THEN <<Error(n, "Illegal character", 0, echo)>> ELSE <<>>)

\* One label: at most one error.
LabelDiags(label, n, echo) ==
    IF label = <<>> THEN <<Error(n, "Leading/trailing or multiple dot", 0, echo)>>
    ELSE IF Slice(label, 0, 4) = <<"x", "n", "-", "-">>
        THEN <<Error(n, "Punycode found", 0, echo)>>
    ELSE IF Contains(label, <<"-", "-">>)
        THEN <<Error(n, "Double minus found", 0, echo)>>
    ELSE IF \E i \in DOMAIN label :
                ~IsAlnum(label[i]) /\ label[i] # "-" /\ IsAscii(label[i])
        THEN <<Error(n, "Illegal character", 0, echo)>>
    ELSE <<>>

LabelsDiags(labels, n, echo) ==
    Concat([i \in DOMAIN labels |-> LabelDiags(labels[i], n, echo)])

\* DoubletteDiags formatting the message with the current line number.
DoubletteDiagsOwnLine(text, l2f, l2n, n, echo) ==
    IF text \in DOMAIN l2f
    THEN <<Error(n, "Found doublette/ambiguity (previous line was %d)", n, echo)>>
    ELSE <<>>

\* Found existing entry.
DoubletteDiags(text, l2f, l2n, n, echo) ==
    IF text \in DOMAIN l2f
    THEN <<Error(n, "Found doublette/ambiguity (previous line was %d)", l2n[text], echo)>>
    ELSE <<>>

\* Put that leaves an existing entry alone: the first value stays.
PutIfAbsent(d, k, v) == [x \in DOMAIN d \cup {k} |-> IF x \in DOMAIN d THEN d[x] ELSE v]

\* d[k] = v
Put(d, k, v) == [x \in DOMAIN d \cup {k} |-> IF x = k THEN v ELSE d[x]]

\* What one pass of the loop leaves behind.
Pass(sec, icann, private, l2n, l2f, grp, orig, diags, raised) ==
    [section |-> sec, icann_sections |-> icann, private_sections |-> private,
     line2number |-> l2n, line2flag |-> l2f, group |-> grp, orig_line |-> orig,
     diags |-> diags, raised |-> raised]

\* A rule line (neither blank nor a comment) read while the section is sec,
\* line being the stripped text and echo the orig_line of this pass.
RuleLineIn(sec, line, echo, d0, n) ==
    LET d1 == d0 \o OutsideDiags(sec, n, echo)
        grp == Append(group, Reversed(Split(line)))
    IN  IF ~EncodesAsUTF8(line)
        THEN Pass(sec, icann_sections, private_sections, line2number, line2flag,
                  grp, <<>>, d1 \o <<Error(n, "Invalid UTF-8 character", 0, <<>>)>>,
                  "none")
        ELSE
        LET d2 == d1 \o FormDiags(line, n, echo)
        IN  IF WildRest(line) = <<>>
            \* line[0] of an empty string
            THEN Pass(sec, icann_sections, private_sections, line2number,
                      line2flag, grp, echo, d2, "IndexError")
            ELSE
            LET flags == RuleFlags(sec, line)
                text == RuleText(line)
            IN  IF HasFlag(flags, PSL_FLAG_WILDCARD) /\ HasFlag(flags, PSL_FLAG_EXCEPTION)
                THEN Pass(sec, icann_sections, private_sections, line2number,
                          line2flag, grp, echo,
                          d2 \o <<Error(n, "Combination of wildcard and exception", 0, echo)>>,
                          "none")
                ELSE
                LET labels == Split(text)
                    d3 == d2 \o ExceptionDiags(flags, labels, line2flag, n, echo)
                             \o LabelsDiags(labels, n, echo)
                             \o DoubletteDiags(text, line2flag, line2number, n, echo)
                IN  Pass(sec, icann_sections, private_sections,
                         Put(line2number, text, n), Put(line2flag, text, flags),
                         grp, echo, d3, "none")

\* The rule line in the section lint_psl is in.
RuleLine(line, echo, d0, n) == RuleLineIn(section, line, echo, d0, n)

\* GroupEnd with the call in force: the finally clause of check_order
\* empties the group.
GroupEndChecked(grp) == SubSeq(grp, 1, 0)

\* The group at a blank line and at a comment: the call check_order(group)
\* is commented out at both places, the group stays as it is.
GroupEnd(grp) == grp

\* One pass of the loop over the line l.
LintLine(l) ==
    LET n == nline + 1
        echo == ShownLine(l)
        line == Strip(l)
        d0 == WhitespaceDiags(l, n)
    IN  IF line = <<>>
        THEN Pass(section, icann_sections, private_sections, line2number, line2flag,
                  GroupEnd(group), echo, d0, "none")
        ELSE IF Slice(line, 0, 2) = <<"/", "/">>
        THEN Pass(CommentSection(section, line),
                  IF section = 0 /\ line = BEGIN_ICANN
                      THEN icann_sections + 1 ELSE icann_sections,
                  IF section = 0 /\ line # BEGIN_ICANN /\ line = BEGIN_PRIVATE
                      THEN private_sections + 1 ELSE private_sections,
                  line2number, line2flag, GroupEnd(group), echo,
                  d0 \o CommentDiags(section, line, n, echo), "none")
        ELSE RuleLine(line, echo, d0, n)

\* EndDiags without the test for an open PRIVATE section.
EndDiagsIcannOnly(sec, icann, private, n) ==
    (IF sec = PSL_FLAG_ICANN THEN <<Error(n, "ICANN section not closed", 0, <<>>)>>
     ELSE <<>>)
    \o
    (IF icann < 1 THEN <<Warning(n, "No ICANN section found", 0, <<>>)>>
     ELSE IF icann > 1 THEN <<Warning(n, "%d ICANN sections found", icann, <<>>)>>
     ELSE <<>>)
    \o
    (IF private < 1 THEN <<Warning(n, "No PRIVATE section found", 0, <<>>)>>
     ELSE IF private > 1 THEN <<Warning(n, "%d PRIVATE sections found", private, <<>>)>>
     ELSE <<>>)

\* EndDiags with the section counts compared with >= 1 in place of > 1.
EndDiagsAtLeastOne(sec, icann, private, n) ==
    (IF sec = PSL_FLAG_ICANN THEN <<Error(n, "ICANN section not closed", 0, <<>>)>>
     ELSE IF sec = PSL_FLAG_PRIVATE THEN <<Error(n, "PRIVATE section not closed", 0, <<>>)>>
     ELSE <<>>)
    \o
    (IF icann < 1 THEN <<Warning(n, "No ICANN section found", 0, <<>>)>>
     ELSE IF icann >= 1 THEN <<Warning(n, "%d ICANN sections found", icann, <<>>)>>
     ELSE <<>>)
    \o
    (IF private < 1 THEN <<Warning(n, "No PRIVATE section found", 0, <<>>)>>
     ELSE IF private >= 1 THEN <<Warning(n, "%d PRIVATE sections found", private, <<>>)>>
     ELSE <<>>)

\* After the loop: sections left open, and the number of sections.
EndDiags(sec, icann, private, n) ==
    (IF sec = PSL_FLAG_ICANN THEN <<Error(n, "ICANN section not closed", 0, <<>>)>>
     ELSE IF sec = PSL_FLAG_PRIVATE THEN <<Error(n, "PRIVATE section not closed", 0, <<>>)>>
     ELSE <<>>)
    \o
    (IF icann < 1 THEN <<Warning(n, "No ICANN section found", 0, <<>>)>>
     ELSE IF icann > 1 THEN <<Warning(n, "%d ICANN sections found", icann, <<>>)>>
     ELSE <<>>)
    \o
    (IF private < 1 THEN <<Warning(n, "No PRIVATE section found", 0, <<>>)>>
     ELSE IF private > 1 THEN <<Warning(n, "%d PRIVATE sections found", private, <<>>)>>
     ELSE <<>>)

\* sys.exit(main()): main returns errors != 0
ExitCode(errs) == IF errs # 0 THEN 1 ELSE 0

-----------------------------------------------------------------------------
(* The run *)

\* The tools are not running.
ParseIdle ==
    /\ icann_domains = {}
    /\ parsed = <<>>

DnsIdle ==
    /\ attempt = 0
    /\ replies = <<>>
    /\ responses = <<>>
    /\ dns_status = "running"
    /\ attempt_status = <<>>
    /\ psl_domain = <<>>
    /\ psl_txt_status = "running"

DiffIdle ==
    /\ current_file = <<>>
    /\ pull_request_file = <<>>
    /\ diff = {}

SuffixIdle ==
    /\ suffix_1 = <<>>
    /\ suffix_2 = <<>>
    /\ less = <<>>

RunIdle ==
    /\ psl_data = <<>>
    /\ raw_domains = <<>>
    /\ domains = <<>>
    /\ data = <<>>

\* The linter has read nothing.
LintIdle ==
    /\ lines = <<>>
    /\ nline = 0
    /\ orig_line = <<>>
    /\ warnings = 0
    /\ errors = 0
    /\ skip_order_check = FALSE
    /\ line2number = <<>>
    /\ line2flag = <<>>
    /\ group = <<>>
    /\ section = 0
    /\ icann_sections = 0
    /\ private_sections = 0
    /\ out = <<>>
    /\ trace = <<>>
    /\ exception = "none"
    /\ exit_status = -1

Init == pc = "scan" /\ LintIdle /\ ParseIdle /\ DnsIdle /\ DiffIdle /\ SuffixIdle /\ RunIdle

\* The loop of lint_psl takes the next line, l.  An exception raised in the
\* pass leaves lint_psl and main, and the interpreter exits with status 1.
ReadLine(l) ==
    /\ pc = "scan"
    /\ nline < MaxLines
    /\ LET r == LintLine(l)
       IN  /\ lines' = Append(lines, l)
           /\ nline' = nline + 1
           /\ orig_line' = r.orig_line
           /\ warnings' = warnings + Count(r.diags, "warning")
           /\ errors' = errors + Count(r.diags, "error")
           /\ line2number' = r.line2number
           /\ line2flag' = r.line2flag
           /\ group' = r.group
           /\ section' = r.section
           /\ icann_sections' = r.icann_sections
           /\ private_sections' = r.private_sections
           /\ out' = out \o r.diags
           /\ trace' = Append(trace, [before |-> section, after |-> r.section,
                                     diags |-> r.diags])
           /\ exception' = r.raised
           /\ pc' = IF r.raised = "none" THEN "scan" ELSE "exited"
           /\ exit_status' = IF r.raised = "none" THEN exit_status ELSE 1
    /\ UNCHANGED <<skip_order_check, toolVars>>

\* The input is exhausted: the checks of lint_psl after its loop.
EndOfInput ==
    /\ pc = "scan"
    /\ LET ds == EndDiags(section, icann_sections, private_sections, nline)
       IN  /\ out' = out \o ds
           /\ warnings' = warnings + Count(ds, "warning")
           /\ errors' = errors + Count(ds, "error")
    /\ orig_line' = <<>>
    /\ pc' = "linted"
    /\ UNCHANGED <<lines, nline, skip_order_check, line2number, line2flag, group,
                   section, icann_sections, private_sections, trace, exception,
                   exit_status, toolVars>>

\* main returns errors != 0 to sys.exit.
Exit ==
    /\ pc = "linted"
    /\ exit_status' = ExitCode(errors)
    /\ pc' = "exited"
    /\ UNCHANGED <<lines, nline, orig_line, warnings, errors, skip_order_check,
                   line2number, line2flag, group, section, icann_sections,
                   private_sections, out, trace, exception, toolVars>>

-----------------------------------------------------------------------------
(* The input lines the runs are drawn from *)

BLANK == <<>>
UNKNOWN_BEGIN == <<"/","/"," ","=","=","=","B","E","G","I","N">>
UNKNOWN_END == <<"/","/"," ","=","=","=","E","N","D">>
COMMENT == <<"/","/"," ","c">>
EXAMPLE_COM == <<"e","x","a","m","p","l","e",".","c","o","m">>
UPPER_EXAMPLE_COM == <<"E","X","A","M","P","L","E",".","C","O","M">>
COM == <<"c","o","m">>
FOO_BAR == <<"f","o","o",".","b","a","r">>
WILD_FOO_BAR == <<"*",".","f","o","o",".","b","a","r">>
EXC_FOO_BAR == <<"!","f","o","o",".","b","a","r">>
EXC_A_FOO_BAR == <<"!","a",".","f","o","o",".","b","a","r">>
ONLY_WILD == <<"*",".">>
ONLY_EXC == <<"!">>
\* "com" followed by a tab
COM_TAB == <<"c","o","m","\t">>
\* " Com": leading whitespace, uppercase
SPACE_UPPER_COM == <<" ","C","o","m">>
\* the fi ligature (not NFKC), "fi.com"
LIGATURE_COM == <<"U+FB01",".","c","o","m">>
\* the Angstrom sign: neither NFKC nor lowercase
ANGSTROM == <<"U+212B">>
\* e-acute: NFKC and lowercase
E_ACUTE == <<"U+00E9">>
\* "A" and the undecodable byte 0x80
UPPER_BAD_BYTE == <<"A","U+DC80">>
\* "bar" and the undecodable byte 0x80
BAD_BYTE == <<"b","a","r","U+DC80">>
\* "!a." and the undecodable byte 0x80
EXC_BAD_BYTE == <<"!","a",".","U+DC80">>

Lines == {BEGIN_ICANN, END_ICANN, BEGIN_PRIVATE, END_PRIVATE, BLANK, COMMENT,
          EXAMPLE_COM, UPPER_EXAMPLE_COM, COM_TAB, ONLY_WILD, ONLY_EXC}

SectionLines == {BEGIN_ICANN, END_ICANN, BEGIN_PRIVATE, END_PRIVATE,
                 UNKNOWN_BEGIN, UNKNOWN_END, COMMENT, BLANK, COM, ONLY_WILD}

RuleLines == {BEGIN_ICANN, END_ICANN, EXAMPLE_COM, FOO_BAR, WILD_FOO_BAR,
              EXC_FOO_BAR, EXC_A_FOO_BAR, EXC_BAD_BYTE, BAD_BYTE}

\* "*.!foo.bar": both prefixes
WILD_EXC_FOO_BAR == <<"*",".","!","f","o","o",".","b","a","r">>

FlagLines == {BEGIN_ICANN, END_ICANN, BEGIN_PRIVATE, FOO_BAR, WILD_FOO_BAR,
              EXC_FOO_BAR, WILD_EXC_FOO_BAR, BAD_BYTE, ONLY_WILD}

\* "xn--a--b_": a Punycode prefix, a double minus and an illegal character
XN_DOUBLE_MINUS_ILLEGAL == <<"x","n","-","-","a","-","-","b","_">>
\* "a--b_.c": a double minus and an illegal character in the first label
DOUBLE_MINUS_ILLEGAL == <<"a","-","-","b","_",".","c">>
\* "a_b+.c-d": two illegal characters in the first label, none in the second
TWO_ILLEGAL == <<"a","_","b","+",".","c","-","d">>
\* ".a": a leading dot
LEADING_DOT == <<".","a">>
\* "a..b_": a double dot, and an illegal character in the last label
DOUBLE_DOT_ILLEGAL == <<"a",".",".","b","_">>
\* "*.xn--a.a--b": a wildcard with a Punycode label and a double minus
WILD_XN_DOUBLE_MINUS == <<"*",".","x","n","-","-","a",".","a","-","-","b">>
\* "e-acute - a . com": non-ASCII and a single minus, no error
E_ACUTE_MINUS_COM == <<"U+00E9","-","a",".","c","o","m">>
\* "!a_.XN--b": an exception with an illegal character and an uppercase
\* Punycode prefix
EXC_ILLEGAL_UPPER_XN == <<"!","a","_",".","X","N","-","-","b">>

LabelLines == {BEGIN_ICANN, XN_DOUBLE_MINUS_ILLEGAL, DOUBLE_MINUS_ILLEGAL,
               TWO_ILLEGAL, LEADING_DOT, DOUBLE_DOT_ILLEGAL, WILD_XN_DOUBLE_MINUS,
               E_ACUTE_MINUS_COM, EXC_ILLEGAL_UPPER_XN}

\* rules with every kind of error, to stand inside and outside of a section
OutsideLines == {BEGIN_ICANN, FOO_BAR, WILD_FOO_BAR, EXC_A_FOO_BAR,
                 WILD_EXC_FOO_BAR, BAD_BYTE, SPACE_UPPER_COM, LIGATURE_COM,
                 DOUBLE_DOT_ILLEGAL}

TextLines == {BEGIN_ICANN, EXAMPLE_COM, UPPER_EXAMPLE_COM, SPACE_UPPER_COM,
              LIGATURE_COM, ANGSTROM, E_ACUTE, UPPER_BAD_BYTE, ONLY_WILD}

Next ==
    \/ \E l \in Lines : ReadLine(l)
    \/ EndOfInput
    \/ Exit

Spec == Init /\ [][Next]_vars

NextSections ==
    \/ \E l \in SectionLines : ReadLine(l)
    \/ EndOfInput
    \/ Exit

SpecSections == Init /\ [][NextSections]_vars

NextRules ==
    \/ \E l \in RuleLines : ReadLine(l)
    \/ EndOfInput
    \/ Exit

SpecRules == Init /\ [][NextRules]_vars

NextText ==
    \/ \E l \in TextLines : ReadLine(l)
    \/ EndOfInput
    \/ Exit

SpecText == Init /\ [][NextText]_vars

NextFlags ==
    \/ \E l \in FlagLines : ReadLine(l)
    \/ EndOfInput
    \/ Exit

SpecFlags == Init /\ [][NextFlags]_vars

NextLabels ==
    \/ \E l \in LabelLines : ReadLine(l)
    \/ EndOfInput
    \/ Exit

SpecLabels == Init /\ [][NextLabels]_vars

\* "// c ": a comment with a trailing blank
COMMENT_SPACE == <<"/","/"," ","c"," ">>
\* "//===BEGIN": a marker without the blank after '//'
NOSPACE_BEGIN == <<"/","/","=","=","=","B","E","G","I","N">>

CommentLines == {BEGIN_ICANN, END_ICANN, BEGIN_PRIVATE, END_PRIVATE,
                 UNKNOWN_BEGIN, UNKNOWN_END, COMMENT, COMMENT_SPACE, NOSPACE_BEGIN}

NextComments ==
    \/ \E l \in CommentLines : ReadLine(l)
    \/ EndOfInput
    \/ Exit

SpecComments == Init /\ [][NextComments]_vars

NextOutside ==
    \/ \E l \in OutsideLines : ReadLine(l)
    \/ EndOfInput
    \/ Exit

SpecOutside == Init /\ [][NextOutside]_vars

-----------------------------------------------------------------------------
(* Properties.  trace[i] holds what the pass over lines[i] did.            *)

\* the i-th line, trimmed
LineText(i) == Strip(lines[i])
\* the i-th line is a rule: neither blank nor a comment
IsRuleLine(i) == LineText(i) # <<>> /\ Slice(LineText(i), 0, 2) # <<"/", "/">>

ErrorsOf(ds) == SelectSeq(ds, LAMBDA d : d.sev = "error")
WarningsOf(ds) == SelectSeq(ds, LAMBDA d : d.sev = "warning")
HasMsg(ds, m) == \E i \in DOMAIN ds : ds[i].msg = m
NumMsg(ds, m) == Cardinality({i \in DOMAIN ds : ds[i].msg = m})

\* what was printed after the loop, at the end of the input
EndOut ==
    SubSeq(out, Len(Concat([i \in DOMAIN trace |-> trace[i].diags])) + 1, Len(out))

\* the run went through the whole input and the checks after the loop
ReachedEnd == pc \in {"linted", "exited"} /\ exception = "none"

\* C1: the exit status of the process is non-zero iff at least one error was
\* recorded during the run (warnings do not count).
C1_ExitStatusIffErrors ==
    pc = "exited" => ((exit_status # 0) <=> (errors > 0))

\* C2: over any sequence of lines the section changes only by Outside->Icann
\* on the trimmed line BEGIN_ICANN, Outside->Private on BEGIN_PRIVATE,
\* Icann->Outside on END_ICANN and Private->Outside on END_PRIVATE; every
\* other line leaves it unchanged, so it never goes from Icann to Private or
\* from Private to Icann directly.
C2_SectionTransitions ==
    \A i \in DOMAIN trace :
        LET b == trace[i].before
            a == trace[i].after
        IN  /\ a # b =>
                \/ b = 0 /\ a = PSL_FLAG_ICANN /\ LineText(i) = BEGIN_ICANN
                \/ b = 0 /\ a = PSL_FLAG_PRIVATE /\ LineText(i) = BEGIN_PRIVATE
                \/ b = PSL_FLAG_ICANN /\ a = 0 /\ LineText(i) = END_ICANN
                \/ b = PSL_FLAG_PRIVATE /\ a = 0 /\ LineText(i) = END_PRIVATE
            /\ ~(b = PSL_FLAG_ICANN /\ a = PSL_FLAG_PRIVATE)
            /\ ~(b = PSL_FLAG_PRIVATE /\ a = PSL_FLAG_ICANN)
            /\ (i > 1 => b = trace[i - 1].after)

\* All four transitions were taken in one run.
C2_Witness ==
    /\ Len(trace) = 4
    /\ lines = <<BEGIN_ICANN, END_ICANN, BEGIN_PRIVATE, END_PRIVATE>>
    /\ [i \in 1..4 |-> trace[i].after] = <<PSL_FLAG_ICANN, 0, PSL_FLAG_PRIVATE, 0>>

\* line i - 1 is BEGIN_ICANN and line i is BEGIN_PRIVATE
NestedBegin(i) ==
    i > 1 /\ LineText(i - 1) = BEGIN_ICANN /\ LineText(i) = BEGIN_PRIVATE

UnexpectedBegin == {"Unexpected begin of section: ", "Unexpected begin of section"}

\* C3, as claimed: BEGIN_ICANN immediately followed by BEGIN_PRIVATE gives
\* exactly one 'unexpected begin' error on the second line and leaves the
\* section Private.
C3_NestedBeginLeavesPrivate ==
    \A i \in DOMAIN trace :
        NestedBegin(i) =>
            /\ Len(ErrorsOf(trace[i].diags)) = 1
            /\ ErrorsOf(trace[i].diags)[1].msg \in UnexpectedBegin
            /\ trace[i].after = PSL_FLAG_PRIVATE

\* C3, amended: BEGIN_ICANN immediately followed by BEGIN_PRIVATE gives
\* exactly one 'unexpected begin' error on the second line, which leaves the
\* section as it was: Icann when the BEGIN_ICANN line opened the section.
C3_NestedBeginLeavesSection ==
    \A i \in DOMAIN trace :
        NestedBegin(i) =>
            /\ Len(ErrorsOf(trace[i].diags)) = 1
            /\ ErrorsOf(trace[i].diags)[1].msg \in UnexpectedBegin
            /\ trace[i].after = trace[i].before
            /\ (trace[i - 1].before = 0 => trace[i].after = PSL_FLAG_ICANN)

\* BEGIN_ICANN opened the section and BEGIN_PRIVATE followed at once.
C3_Witness ==
    /\ lines = <<BEGIN_ICANN, BEGIN_PRIVATE>>
    /\ section = PSL_FLAG_ICANN
    /\ errors = 1

\* The canonical text of a rule: the rule without its '*.' prefix, else
\* without its '!' prefix.
Canonical(t) ==
    IF Slice(t, 0, 2) = <<"*", ".">> THEN SliceFrom(t, 2)
    ELSE IF t # <<>> /\ t[1] = "!" THEN Tail(t)
    ELSE t

\* A label of the grammar: not empty, no 'xn--' prefix, no '--', and only
\* alphanumeric characters, '-' and characters of code point >= 128.
WellFormedLabel(lab) ==
    /\ lab # <<>>
    /\ Slice(lab, 0, 4) # <<"x", "n", "-", "-">>
    /\ ~Contains(lab, <<"-", "-">>)
    /\ \A i \in DOMAIN lab : IsAlnum(lab[i]) \/ lab[i] = "-" \/ ~IsAscii(lab[i])
WellFormedLabels(t) == \A i \in DOMAIN Split(t) : WellFormedLabel(Split(t)[i])

\* A valid plain rule: no wildcard or exception prefix, well-formed labels,
\* lowercase, NFKC.
ValidPlain(t) ==
    /\ t # <<>> /\ Slice(t, 0, 2) \notin {<<"/", "/">>, <<"*", ".">>} /\ t[1] # "!"
    /\ EncodesAsUTF8(t) /\ NFKC(t) = t /\ Lower(t) = t
    /\ WellFormedLabels(t)

\* the lines that are r, '*.r' or '!r'
Variants(r) == {r, <<"*", ".">> \o r, <<"!">> \o r}

Max(S) == CHOOSE x \in S : \A y \in S : y <= x

Doublette == "Found doublette/ambiguity (previous line was %d)"

IsExceptionRule(t) == t # <<>> /\ t[1] = "!" /\ Len(Split(Tail(t))) >= 2
\* its suffix S
ExceptionSuffix(t) == Join(Tail(Split(Tail(t))))
\* an earlier line than j declared the wildcard '*.S'
WildcardDeclaredBefore(s, j) == \E k \in 1..(j - 1) : LineText(k) = <<"*", ".">> \o s

NoWildcard == "Exception without previous wildcard"

\* C5, as claimed: every exception rule '!a.S' with no earlier line '*.S' is
\* reported as 'exception without previous wildcard'.
C5_ExceptionNeedsWildcard ==
    \A j \in DOMAIN trace :
        ( /\ IsExceptionRule(LineText(j))
          /\ ~WildcardDeclaredBefore(ExceptionSuffix(LineText(j)), j) )
        => HasMsg(trace[j].diags, NoWildcard)

\* C5, amended: every exception rule '!a.S' that passes the encoding check
\* and has no earlier line '*.S' is reported as 'exception without previous
\* wildcard'.
C5_EncodedExceptionNeedsWildcard ==
    \A j \in DOMAIN trace :
        ( /\ IsExceptionRule(LineText(j))
          /\ EncodesAsUTF8(LineText(j))
          /\ ~WildcardDeclaredBefore(ExceptionSuffix(LineText(j)), j) )
        => NumMsg(ErrorsOf(trace[j].diags), NoWildcard) = 1

\* !a.foo.bar after the plain rule foo.bar, with no wildcard: reported.
C5_Witness ==
    /\ lines = <<BEGIN_ICANN, FOO_BAR, EXC_A_FOO_BAR>>
    /\ errors = 1
    /\ out[1].msg = NoWildcard /\ out[1].nline = 3

NotNFKC == "Rule must be NFKC"
NotLower == "Rule must be lowercase"

\* C6, as claimed: a rule line T is reported neither as not NFKC nor as not
\* lowercase iff T equals its NFKC form and its lowercase form.
C6_FormErrorsIffChanged ==
    \A j \in DOMAIN trace :
        IsRuleLine(j) =>
            ( (~HasMsg(trace[j].diags, NotNFKC) /\ ~HasMsg(trace[j].diags, NotLower))
              <=> (NFKC(LineText(j)) = LineText(j) /\ Lower(LineText(j)) = LineText(j)) )

\* C6, amended: a rule line T that passes the encoding check is reported
\* neither as not NFKC nor as not lowercase iff T equals its NFKC form and
\* its lowercase form.
C6_EncodedFormErrorsIffChanged ==
    \A j \in DOMAIN trace :
        (IsRuleLine(j) /\ EncodesAsUTF8(LineText(j))) =>
            ( (~HasMsg(trace[j].diags, NotNFKC) /\ ~HasMsg(trace[j].diags, NotLower))
              <=> (NFKC(LineText(j)) = LineText(j) /\ Lower(LineText(j)) = LineText(j)) )

\* The fi ligature is reported as not NFKC, the Angstrom sign as both, and
\* e-acute as neither.
C6_Witness ==
    /\ lines = <<BEGIN_ICANN, LIGATURE_COM, ANGSTROM, E_ACUTE>>
    /\ [i \in DOMAIN out |-> <<out[i].nline, out[i].msg>>]
           = << <<2, NotNFKC>>, <<3, NotNFKC>>, <<3, NotLower>> >>

\* C7: the scan never aborts on a line: no pass of the loop ends the run
\* with an exception, so every run reaches the checks after the loop.
C7_ScanNeverAborts ==
    /\ exception = "none"
    /\ pc = "exited" => Len(EndOut) > 0

NotClosed == {"ICANN section not closed", "PRIVATE section not closed"}

\* line i opened a section: a BEGIN marker accepted outside of any section
AcceptedBegin(i) ==
    /\ trace[i].before = 0
    /\ LineText(i) \in {BEGIN_ICANN, BEGIN_PRIVATE}
\* the END marker matching the BEGIN marker of line i
MatchingEnd(i) == IF LineText(i) = BEGIN_ICANN THEN END_ICANN ELSE END_PRIVATE
\* the last accepted BEGIN marker has no matching END marker after it
LastBeginOpen ==
    \E i \in DOMAIN trace :
        /\ AcceptedBegin(i)
        /\ \A k \in (i + 1)..Len(trace) : ~AcceptedBegin(k)
        /\ \A k \in (i + 1)..Len(trace) : LineText(k) # MatchingEnd(i)

\* C8: at the end of the input (when the scan reaches it) exactly one
\* 'section not closed' error is reported if the section is Icann or Private
\* and none if it is Outside; it is reported iff the last accepted BEGIN
\* marker has no matching END marker after it.
C8_NotClosedIffSectionOpen ==
    ReachedEnd =>
        LET nc == SelectSeq(EndOut, LAMBDA d : d.msg \in NotClosed)
        IN  /\ Len(nc) = (IF section \in {PSL_FLAG_ICANN, PSL_FLAG_PRIVATE} THEN 1 ELSE 0)
            /\ \A i \in DOMAIN nc : nc[i].sev = "error"
            /\ section = PSL_FLAG_ICANN => HasMsg(nc, "ICANN section not closed")
            /\ section = PSL_FLAG_PRIVATE => HasMsg(nc, "PRIVATE section not closed")
            /\ (Len(nc) = 1) <=> LastBeginOpen
            /\ Len(ErrorsOf(EndOut)) = Len(nc)

\* The PRIVATE section was opened after the ICANN section was closed, and
\* the input ends inside it.
C8_Witness ==
    /\ pc = "linted"
    /\ lines = <<BEGIN_ICANN, END_ICANN, BEGIN_PRIVATE, COM>>
    /\ section = PSL_FLAG_PRIVATE
    /\ HasMsg(EndOut, "PRIVATE section not closed")
    /\ errors = 1

\* the number of accepted Outside->Icann (Outside->Private) transitions
IcannTransitions ==
    Cardinality({i \in DOMAIN trace : trace[i].before = 0 /\ LineText(i) = BEGIN_ICANN})
PrivateTransitions ==
    Cardinality({i \in DOMAIN trace : trace[i].before = 0 /\ LineText(i) = BEGIN_PRIVATE})

\* the warning about the number n of sections, if any
CountWarnings(n, none, several) ==
    IF n = 0 THEN <<Warning(nline, none, 0, <<>>)>>
    ELSE IF n > 1 THEN <<Warning(nline, several, n, <<>>)>>
    ELSE <<>>

\* C9: the ICANN counter is the number of accepted Outside->Icann
\* transitions, and at the end of the run (when the scan reaches the end of
\* the input) exactly one warning about it is
\* printed iff it is not 1 ('No ICANN section found' for 0, the count for
\* more than 1); the same for PRIVATE.  These are warnings: the error counter
\* counts the errors printed and nothing else.
C9_SectionCounts ==
    /\ icann_sections = IcannTransitions
    /\ private_sections = PrivateTransitions
    /\ ReachedEnd =>
        /\ WarningsOf(EndOut) =
              CountWarnings(IcannTransitions, "No ICANN section found",
                            "%d ICANN sections found")
              \o CountWarnings(PrivateTransitions, "No PRIVATE section found",
                               "%d PRIVATE sections found")
        /\ errors = Len(ErrorsOf(out))
        /\ warnings = Len(WarningsOf(out))

\* Two ICANN sections and no PRIVATE section: two warnings, no error.
C9_Witness ==
    /\ pc = "linted"
    /\ lines = <<BEGIN_ICANN, END_ICANN, BEGIN_ICANN, END_ICANN>>
    /\ icann_sections = 2
    /\ out = <<Warning(4, "%d ICANN sections found", 2, <<>>),
               Warning(4, "No PRIVATE section found", 0, <<>>)>>
    /\ errors = 0 /\ warnings = 2

\* a rule line that is entered in line2number and line2flag: it passes the
\* encoding check and is neither the bare '*.' nor '*.!...'
Declares(i) ==
    /\ IsRuleLine(i)
    /\ EncodesAsUTF8(LineText(i))
    /\ Slice(LineText(i), 0, 2) = <<"*", ".">> =>
           /\ Canonical(LineText(i)) # <<>>
           /\ Canonical(LineText(i))[1] # "!"
\* the lines before j that declared the canonical text t
EarlierDecls(t, j) == {k \in 1..(j - 1) : Declares(k) /\ Canonical(LineText(k)) = t}

\* the rule of line j is lowercase, NFKC, with well-formed labels, and not a
\* duplicate of an earlier rule
GoodRule(j) ==
    /\ IsRuleLine(j)
    /\ trace[j].before # 0
    /\ Lower(LineText(j)) = LineText(j)
    /\ NFKC(LineText(j)) = LineText(j)
    /\ WellFormedLabels(Canonical(LineText(j)))
    /\ \A k \in 1..(j - 1) :
           IsRuleLine(k) => Canonical(LineText(k)) # Canonical(LineText(j))

\* the three lines of the example, and the whole output they give
ExampleRun ==
    (pc = "exited" /\ lines = <<BEGIN_ICANN, EXAMPLE_COM, END_ICANN>>) =>
        /\ errors = 0
        /\ exit_status = 0
        /\ out = <<Warning(3, "No PRIVATE section found", 0, <<>>)>>

-----------------------------------------------------------------------------
(* parse_domain of tools/private_domains_checker                            *)

\* s.lstrip(chars)
RECURSIVE LStripChars(_, _)
LStripChars(s, chars) ==
    IF s # <<>> /\ Head(s) \in chars THEN LStripChars(Tail(s), chars) ELSE s

\* An outcome of a call: a returned value or a raised exception.
Return(v) == [raised |-> "none", value |-> v]
Raise(e) == [raised |-> e, value |-> <<>>]

\* The Punycode of the non-ASCII labels of the model, after nameprep.
Punycode(label) ==
    CASE label = <<"U+00E9">> -> <<"9","c","a">>
      [] label = <<"U+00E5">> -> <<"5","c","a">>

\* The ToASCII of one label, as label.encode('idna') computes it: an ASCII
\* label is kept as it is and must not be empty; another label is
\* nameprepped (case-folded, NFKC), must hold no surrogate, and is given in
\* Punycode behind the prefix "xn--" unless nameprep left it ASCII.  Labels
\* of 64 characters or more, which are refused too, are not in the model.
ToASCII(label) ==
    IF \A i \in DOMAIN label : IsAscii(label[i])
    THEN IF label = <<>> THEN Raise("UnicodeError") ELSE Return(label)
    ELSE IF \E i \in DOMAIN label : label[i] \in Surrogates
    THEN Raise("UnicodeError")
    ELSE LET prepped == NFKC(Lower(NFKC(label)))
         IN  IF \A i \in DOMAIN prepped : IsAscii(prepped[i])
             THEN Return(prepped)
             ELSE Return(<<"x","n","-","-">> \o Punycode(prepped))

\* s.encode('idna').decode('ascii'): label by label; an empty last label (a
\* trailing dot) is kept, any other empty label raises UnicodeError.
IdnaEncode(s) ==
    IF s = <<>> THEN Return(<<>>)
    ELSE LET labels == Split(s)
             n == Len(labels)
             trailing == labels[n] = <<>>
             body == IF trailing THEN SubSeq(labels, 1, n - 1) ELSE labels
             enc == [i \in DOMAIN body |-> ToASCII(body[i])]
         IN  IF \E i \in DOMAIN enc : enc[i].raised # "none"
             THEN Raise("UnicodeError")
             ELSE Return(Join([i \in DOMAIN enc |-> enc[i].value])
                         \o (IF trailing THEN <<".">> ELSE <<>>))

\* The loop of parse_domain from index i (0-based) on.
RECURSIVE ParseFrom(_, _, _)
\* (a loop that does not skip the candidates that are ICANN suffixes)
ParseFromFirstHit(icann, parts, i) ==
    IF i >= Len(parts)
    THEN Raise("ValueError")
    ELSE IF Join(SliceFrom(parts, i + 1)) \in icann
    THEN IdnaEncode(Join(SliceFrom(parts, i)))
    ELSE ParseFrom(icann, parts, i + 1)
ParseFrom(icann, parts, i) ==
    IF i >= Len(parts)
    THEN Raise("ValueError")
    ELSE LET candidate == Join(SliceFrom(parts, i))
         IN  IF candidate \in icann
             THEN ParseFrom(icann, parts, i + 1)
             ELSE IF Join(SliceFrom(parts, i + 1)) \in icann
             THEN IdnaEncode(candidate)
             ELSE ParseFrom(icann, parts, i + 1)

\* The domain without its leading wildcards and bangs.
Unmarked(domain) == LStripChars(LStripChars(domain, {"*", "."}), {"!"})

parse_domain(icann, domain) == ParseFrom(icann, Split(Unmarked(domain)), 0)

\* A caller calls parse_domain(domain) on the processor.
ParseDomain(domain) ==
    /\ pc = "parse"
    /\ parsed' = <<[domain |-> domain,
                   outcome |-> parse_domain(icann_domains, domain)]>>
    /\ UNCHANGED <<lintVars, suffixVars, txtVars, runVars, attempt_status,
                   icann_domains, attempt, replies, responses,
                   dns_status, current_file, pull_request_file, diff>>

UK == <<"u","k">>
CO_UK == <<"c","o",".","u","k">>
EXAMPLE_CO_UK == <<"e","x","a","m","p","l","e",".","c","o",".","u","k">>
SUB_EXAMPLE_COM == <<"s","u","b",".","e","x","a","m","p","l","e",".","c","o","m">>
WILD_SUB_EXAMPLE_CO_UK == <<"*",".","s","u","b",".","e","x","a","m","p","l","e",".","c","o",".","u","k">>
EXC_EXAMPLE_COM == <<"!","e","x","a","m","p","l","e",".","c","o","m">>
\* "!*.example.com": the bang hides the wildcard from the first lstrip
EXC_WILD_EXAMPLE_COM == <<"!","*",".","e","x","a","m","p","l","e",".","c","o","m">>
INVALID_DOMAIN == <<"i","n","v","a","l","i","d",".","d","o","m","a","i","n">>
EXAMPLE_COM_DOT == <<"e","x","a","m","p","l","e",".","c","o","m",".">>
A_DOT_DOT_COM == <<"a",".",".","c","o","m">>
E_ACUTE_COM == <<"U+00E9",".","c","o","m">>
WILD_UPPER_E_ACUTE_CO_UK == <<"*",".","U+00C9",".","c","o",".","u","k">>
BAD_BYTE_COM == <<"U+DC80",".","c","o","m">>

\* The suffixes the ICANN section may hold, and the domains parsed.
IcannPool == {COM, UK, CO_UK, EXAMPLE_COM}
Domains == {EXAMPLE_COM, SUB_EXAMPLE_COM, EXAMPLE_CO_UK, WILD_SUB_EXAMPLE_CO_UK,
            EXC_EXAMPLE_COM, EXC_WILD_EXAMPLE_COM, COM, CO_UK, INVALID_DOMAIN,
            EXAMPLE_COM_DOT, A_DOT_DOT_COM, E_ACUTE_COM,
            WILD_UPPER_E_ACUTE_CO_UK, BAD_BYTE_COM}

\* A processor whose icann_domains were filled from some list.
InitParse ==
    /\ pc = "parse"
    /\ LintIdle /\ DnsIdle /\ DiffIdle /\ SuffixIdle /\ RunIdle
    /\ icann_domains \in SUBSET IcannPool
    /\ parsed = <<>>

NextParse == \E d \in Domains : ParseDomain(d)

SpecParse == InitParse /\ [][NextParse]_vars

-----------------------------------------------------------------------------
(* Properties of parse_domain *)

\* the labels of the domain of the call, its leading markers removed
CallParts == Split(Unmarked(parsed[1].domain))
\* the dot-suffix of the domain of the call that starts at its i-th label
CallSuffix(i) == Join(SliceFrom(CallParts, i))
\* the suffixes that are no ICANN suffix but one label below one
BelowIcann ==
    {i \in 0..(Len(CallParts) - 1) :
        CallSuffix(i) \notin icann_domains /\ CallSuffix(i + 1) \in icann_domains}
\* the longest of them
LongestBelowIcann == CallSuffix(CHOOSE i \in BelowIcann : \A j \in BelowIcann : i <= j)
\* UnicodeError is a subclass of ValueError
IsValueError(e) == e \in {"ValueError", "UnicodeError"}

\* C11 as stated: parse_domain returns the longest dot-suffix of the domain
\* (its leading markers removed) that is not an ICANN suffix and whose
\* remainder after the first label is one, and raises ValueError if there is
\* none.  Violated: the suffix is returned IDNA-encoded.
C11_ReturnsLongestSuffix ==
    parsed # <<>> =>
        IF BelowIcann = {}
        THEN IsValueError(parsed[1].outcome.raised)
        ELSE parsed[1].outcome = Return(LongestBelowIcann)

\* C11, amended: parse_domain returns the IDNA (ASCII) encoding of the
\* longest dot-suffix of the domain (its leading markers removed) that is not
\* an ICANN suffix and whose remainder after the first label is one; it
\* raises UnicodeError, a ValueError, if that suffix cannot be encoded, and
\* ValueError if there is no such suffix.
C11_ReturnsEncodedLongestSuffix ==
    parsed # <<>> =>
        IF BelowIcann = {}
        THEN parsed[1].outcome = Raise("ValueError")
        ELSE /\ parsed[1].outcome = IdnaEncode(LongestBelowIcann)
             /\ parsed[1].outcome.raised \in {"none", "UnicodeError"}

\* "*.É.co.uk" under {com, co.uk, uk} gives "xn--9ca.co.uk"
C11_Witness ==
    /\ parsed # <<>>
    /\ parsed[1].domain = WILD_UPPER_E_ACUTE_CO_UK
    /\ icann_domains = {COM, CO_UK, UK}
    /\ LongestBelowIcann = <<"U+00C9",".","c","o",".","u","k">>
    /\ parsed[1].outcome =
           Return(<<"x","n","-","-","9","c","a",".","c","o",".","u","k">>)

-----------------------------------------------------------------------------
(* check_dns_status of tools/private_domains_checker                        *)

\* None, and a value that is not None.
None == <<>>
Some(v) == <<v>>

\* What requests.get(url) does: it raises, or it gives a response with a
\* status code and a JSON body.  Of the body only "Status" is read;
\* body.Status is body.get("Status"), None when the key is absent.
Raised == [raised |-> TRUE, status_code |-> 200, json |-> [Status |-> None]]
Response(code, body) == [raised |-> FALSE, status_code |-> code, json |-> body]

\* The body of one url in make_dns_request: the JSON of a 200, else None.
JsonOrNone(reply) ==
    IF reply.raised THEN None
    ELSE IF reply.status_code = 200 THEN Some(reply.json)
    ELSE None

\* make_dns_request: the list of the two bodies, Google first.
make_dns_request(google, cloudflare) == <<JsonOrNone(google), JsonOrNone(cloudflare)>>

\* (equal statuses are "ok", whatever they are)
make_request_ok_only(resp) ==
    IF None \in Range(resp) THEN "ERROR"
    ELSE IF resp[1][1].Status = resp[2][1].Status THEN "ok"
    ELSE "INCONSISTENT"

\* check_dns_status.make_request, on the list make_dns_request returned
make_request(resp) ==
    IF None \in Range(resp) THEN "ERROR"
    ELSE LET google_status == resp[1][1].Status
             cloudflare_status == resp[2][1].Status
         IN  IF google_status = cloudflare_status
             THEN IF google_status = Some(3) THEN "NXDOMAIN" ELSE "ok"
             ELSE "INCONSISTENT"

\* for _ in range(5)
ATTEMPTS == 5

\* One pass of the loop of check_dns_status: the two resolvers reply.
Attempt(google, cloudflare) ==
    /\ pc = "dns"
    /\ dns_status = "running"
    /\ attempt < ATTEMPTS
    /\ attempt' = attempt + 1
    /\ replies' = <<google, cloudflare>>
    /\ responses' = make_dns_request(google, cloudflare)
    /\ LET status == make_request(responses')
       IN  /\ attempt_status' = Append(attempt_status, status)
           /\ dns_status' = IF status \notin {"ERROR", "INCONSISTENT"}
                             THEN status ELSE "running"
    /\ UNCHANGED <<lintVars, suffixVars, txtVars, runVars, icann_domains, parsed,
                   current_file,
                   pull_request_file, diff>>

\* The loop is over without a return.
GiveUp ==
    /\ pc = "dns"
    /\ dns_status = "running"
    /\ attempt = ATTEMPTS
    /\ dns_status' = "INCONSISTENT"
    /\ UNCHANGED <<lintVars, suffixVars, txtVars, runVars, attempt_status,
                   icann_domains, parsed, attempt, replies, responses,
                   current_file, pull_request_file, diff>>

\* The replies of a resolver: an exception, or a 200 or a 500 whose body has
\* Status 0 (NOERROR), 2 (SERVFAIL), 3 (NXDOMAIN) or no Status.
Bodies == {[Status |-> Some(0)], [Status |-> Some(2)], [Status |-> Some(3)],
           [Status |-> None]}
Replies == {Raised} \cup {Response(code, body) : code \in {200, 500}, body \in Bodies}

InitDns ==
    /\ pc = "dns"
    /\ LintIdle /\ ParseIdle /\ DnsIdle /\ DiffIdle /\ SuffixIdle /\ RunIdle

NextDns ==
    \/ \E google, cloudflare \in Replies : Attempt(google, cloudflare)
    \/ GiveUp

SpecDns == InitDns /\ [][NextDns]_vars

-----------------------------------------------------------------------------
(* Properties of check_dns_status *)

\* on the last attempt both resolvers answered HTTP 200 with the Status s
BothAnswered(s) ==
    /\ replies # <<>>
    /\ \A i \in 1..2 : /\ ~replies[i].raised
                       /\ replies[i].status_code = 200
                       /\ replies[i].json.Status = s

\* C12: when both resolvers answer HTTP 200 with the same Status,
\* check_dns_status returns 'NXDOMAIN' if that Status is 3 and 'ok' otherwise.
C12_SameStatusDecides ==
    \A body \in Bodies :
        BothAnswered(body.Status) =>
            dns_status = IF body.Status = Some(3) THEN "NXDOMAIN" ELSE "ok"

\* NXDOMAIN from both on the second attempt, after an attempt that failed
C12_Witness ==
    /\ BothAnswered(Some(3))
    /\ dns_status = "NXDOMAIN"
    /\ attempt = 2

-----------------------------------------------------------------------------
(* psl_diff of tools/pr_checker                                             *)

\* s.startswith(prefix)
StartsWith(s, prefix) == Slice(s, 0, Len(prefix)) = prefix

\* (a reader that keeps the comment lines)
read_rules_with_comments(file) ==
    {Strip(file[i]) : i \in {j \in DOMAIN file : Strip(file[j]) # <<>>}}

\* read_rules, on the lines of the file: the set of the trimmed lines that
\* are neither empty nor comments
read_rules(file) ==
    {Strip(file[i]) : i \in {j \in DOMAIN file :
                                /\ Strip(file[j]) # <<>>
                                /\ ~StartsWith(Strip(file[j]), <<"/", "/">>)}}

\* open(filename), for the two files there are
Open(filename) ==
    IF filename = "current" THEN current_file ELSE pull_request_file

\* psl_diff(current_filename, pull_request_filename)
psl_diff(current_filename, pull_request_filename) ==
    LET current_rules == read_rules(Open(current_filename))
        pull_request_rules == read_rules(Open(pull_request_filename))
        removed == current_rules \ pull_request_rules
        added == pull_request_rules \ current_rules
    IN  <<added, removed>>

\* A caller calls psl_diff on the two files, in one order or the other.
PslDiff(current_filename, pull_request_filename) ==
    /\ pc = "diff"
    /\ diff' = diff \cup
          {[current_filename |-> current_filename,
            pull_request_filename |-> pull_request_filename,
            returned |-> psl_diff(current_filename, pull_request_filename)]}
    /\ UNCHANGED <<lintVars, suffixVars, txtVars, runVars, attempt_status,
                   icann_domains, parsed, attempt, replies, responses,
                   dns_status, current_file, pull_request_file>>

BE == <<"b","e">>
WILD_BD == <<"*",".","b","d">>
\* " // c": a comment behind a blank
SPACE_COMMENT == <<" ","/","/"," ","c">>

FileLines == {BLANK, SPACE_COMMENT, COM, COM_TAB, BE, WILD_BD}

\* the files of at most n lines
Files(n) == UNION {[1..k -> FileLines] : k \in 0..n}

InitDiff ==
    /\ pc = "diff"
    /\ LintIdle /\ ParseIdle /\ DnsIdle /\ SuffixIdle /\ RunIdle
    /\ current_file \in Files(MaxFileLines)
    /\ pull_request_file \in Files(MaxFileLines)
    /\ diff = {}

NextDiff ==
    \/ PslDiff("current", "pull_request")
    \/ PslDiff("pull_request", "current")

SpecDiff == InitDiff /\ [][NextDiff]_vars

-----------------------------------------------------------------------------
(* Properties of psl_diff *)

\* the rules of a file: its trimmed lines that are neither blank nor comments
RulesOf(file) ==
    {t \in {Strip(file[i]) : i \in DOMAIN file} :
        t # <<>> /\ ~(Len(t) >= 2 /\ t[1] = "/" /\ t[2] = "/")}

\* C13: psl_diff(current, pr) returns (added, removed) with added the rules
\* of pr that are not in current and removed the rules of current that are
\* not in pr; the two are disjoint, a rule of both files is in neither, and
\* the call with the arguments swapped returns the pair swapped.
C13_DiffIsSetDifference ==
    \A c \in diff :
        LET current == RulesOf(Open(c.current_filename))
            pr == RulesOf(Open(c.pull_request_filename))
            added == c.returned[1]
            removed == c.returned[2]
        IN  /\ added = {r \in pr : r \notin current}
            /\ removed = {r \in current : r \notin pr}
            /\ added \cap removed = {}
            /\ \A r \in current \cap pr : r \notin added /\ r \notin removed
            /\ \A d \in diff :
                  (/\ d.current_filename = c.pull_request_filename
                   /\ d.pull_request_filename = c.current_filename)
                      => d.returned = <<removed, added>>

\* both calls made on files that share the rule "com" (written "com" and
\* "com" with a tab) and differ in another, one of them holding a comment
C13_Witness ==
    /\ current_file = <<COM, WILD_BD>>
    /\ pull_request_file = <<SPACE_COMMENT, COM_TAB>>
    /\ diff = {[current_filename |-> "current", pull_request_filename |-> "pull_request",
                returned |-> <<{}, {WILD_BD}>>],
               [current_filename |-> "pull_request", pull_request_filename |-> "current",
                returned |-> <<{WILD_BD}, {}>>]}

-----------------------------------------------------------------------------
(* Properties of the registry: line2number and line2flag *)

\* the rule lines read so far whose canonical text is t
Occurrences(t) ==
    {k \in DOMAIN trace : IsRuleLine(k) /\ Canonical(LineText(k)) = t}

\* the flags lint_psl derives for the rule line k in the section it stands in
FlagsOfLine(k) == RuleFlags(trace[k].before, LineText(k))

\* the doublette errors of line j
DoublettesOf(j) == SelectSeq(trace[j].diags, LAMBDA d : d.msg = Doublette)

Processed(k) == k < Len(trace) \/ exception = "none"

\* the text holds no undecodable byte
Decodable(t) == "U+DC80" \notin Range(t)

\* the rule carries both prefixes: '*.!...'
BothPrefixes(t) == Slice(t, 0, 3) = <<"*", ".", "!">>

\* the text of a rule without its '*.' prefix and without its '!' prefix
Unprefixed(t) ==
    LET rest == IF Slice(t, 0, 2) = <<"*", ".">> THEN SliceFrom(t, 2) ELSE t
    IN  IF rest # <<>> /\ rest[1] = "!" THEN Tail(rest) ELSE rest

\* the entry of the group for the rule line k: the k-th line is the n-th
\* rule line and group[n] is its labels, the last one first
InGroup(k) ==
    LET n == Cardinality({m \in 1..k : IsRuleLine(m)})
    IN  n <= Len(group) /\ group[n] = Reversed(Split(LineText(k)))

\* C15 as stated: every processed rule line, valid or not, has its
\* canonical text in the registry and has been appended to the group.
\* Violated by the lines that fail the encoding check or carry both
\* prefixes.
C15_EveryRuleRegistered ==
    \A k \in DOMAIN trace :
        (IsRuleLine(k) /\ Processed(k)) =>
            /\ Unprefixed(LineText(k)) \in DOMAIN line2number
            /\ Unprefixed(LineText(k)) \in DOMAIN line2flag
            /\ InGroup(k)

\* C15, amended: every processed rule line, valid or not, has been appended
\* to the group; its canonical text is in the registry if it passed the
\* encoding check and does not carry both prefixes, and the registry holds
\* nothing else: a line that fails the encoding check or the combination
\* check is not entered.
C15_CheckedRulesRegistered ==
    /\ \A k \in DOMAIN trace : (IsRuleLine(k) /\ Processed(k)) => InGroup(k)
    /\ DOMAIN line2number =
          {Unprefixed(LineText(k)) :
              k \in {m \in DOMAIN trace :
                        /\ IsRuleLine(m) /\ Processed(m)
                        /\ Decodable(LineText(m))
                        /\ ~BothPrefixes(LineText(m))}}
    /\ DOMAIN line2flag = DOMAIN line2number

\* a line failing the encoding check, one with both prefixes and a plain
\* rule: three entries in the group, one in the registry
C15_Witness ==
    /\ lines = <<BEGIN_ICANN, BAD_BYTE, WILD_EXC_FOO_BAR, FOO_BAR>>
    /\ Len(group) = 3
    /\ DOMAIN line2number = {FOO_BAR}
    /\ line2number[FOO_BAR] = 4

\* C16: when an earlier line declared the wildcard '*.S', a later exception
\* '!a.S' is not reported as 'exception without previous wildcard',
\* whatever lines stand between the two.
C16_DeclaredWildcardResolves ==
    \A j \in DOMAIN trace :
        ( /\ IsExceptionRule(LineText(j))
          /\ WildcardDeclaredBefore(ExceptionSuffix(LineText(j)), j) )
        => ~HasMsg(trace[j].diags, NoWildcard)

\* lines i and j are the two given rules, in one order or the other, and no
\* other line with their canonical text stands before the second
IsPair(i, j, r1, r2) ==
    /\ i < j
    /\ {LineText(i), LineText(j)} = {r1, r2}
    /\ \A k \in 1..(j - 1) : k # i => ~(IsRuleLine(k) /\ Unprefixed(LineText(k)) = Unprefixed(r1))

\* C17: of an exception '!foo.bar' and a wildcard '*.foo.bar' in one run
\* neither is reported as doublette, whereas of '!foo.bar' and 'foo.bar',
\* and of 'foo.bar' and '*.foo.bar', the second is.
C17_ExceptionWithWildcardAllowed ==
    \A i, j \in DOMAIN trace :
        /\ IsPair(i, j, EXC_FOO_BAR, WILD_FOO_BAR) =>
              DoublettesOf(i) = <<>> /\ DoublettesOf(j) = <<>>
        /\ IsPair(i, j, EXC_FOO_BAR, FOO_BAR) =>
              DoublettesOf(i) = <<>> /\ Len(DoublettesOf(j)) = 1
        /\ IsPair(i, j, FOO_BAR, WILD_FOO_BAR) =>
              DoublettesOf(i) = <<>> /\ Len(DoublettesOf(j)) = 1

Combination == "Combination of wildcard and exception"

\* the rule lines whose pass derived flags: processed, decodable
FlagsDerived(j) == IsRuleLine(j) /\ Processed(j) /\ Decodable(LineText(j))

\* C18 as stated: no rule line gets both the Wildcard and the Exception
\* flag, and 'combination of wildcard and exception' is never reported.
\* Violated by a line that starts with '*.!'.
C18_NeverBothPrefixes ==
    \A j \in DOMAIN trace :
        /\ ~HasMsg(trace[j].diags, Combination)
        /\ FlagsDerived(j) =>
              ~(/\ HasFlag(FlagsOfLine(j), PSL_FLAG_WILDCARD)
                /\ HasFlag(FlagsOfLine(j), PSL_FLAG_EXCEPTION))

\* C18, amended: a rule line gets both the Wildcard and the Exception flag
\* iff it starts with '*.!' (the '!' is looked for behind the '*.' prefix
\* too); such a line, if it passed the encoding check, is reported with
\* 'combination of wildcard and exception', exactly once and as the last
\* diagnostic of the line, and no other line is.
C18_BothPrefixesReported ==
    \A j \in DOMAIN trace :
        /\ HasMsg(trace[j].diags, Combination) =>
              FlagsDerived(j) /\ BothPrefixes(LineText(j))
        /\ FlagsDerived(j) =>
              /\ (/\ HasFlag(FlagsOfLine(j), PSL_FLAG_WILDCARD)
                  /\ HasFlag(FlagsOfLine(j), PSL_FLAG_EXCEPTION))
                    <=> BothPrefixes(LineText(j))
              /\ BothPrefixes(LineText(j)) =>
                    /\ NumMsg(trace[j].diags, Combination) = 1
                    /\ trace[j].diags[Len(trace[j].diags)].msg = Combination
                    /\ trace[j].diags[Len(trace[j].diags)].sev = "error"

\* '*.!foo.bar' in the ICANN section: one error, the combination
C18_Witness ==
    /\ lines = <<BEGIN_ICANN, WILD_EXC_FOO_BAR>>
    /\ errors = 1
    /\ out[1].msg = Combination /\ out[1].nline = 2
    /\ line2flag = <<>>

\* the section flag in a set of flags
SectionOf(flags) ==
    (IF HasFlag(flags, PSL_FLAG_ICANN) THEN PSL_FLAG_ICANN ELSE 0)
    + (IF HasFlag(flags, PSL_FLAG_PRIVATE) THEN PSL_FLAG_PRIVATE ELSE 0)

\* C19: no entry of the registry has both the Wildcard and the Exception
\* flag, none has both the Icann and the Private flag, and the section flag
\* of an entry is the section that was current when its line (the line the
\* entry names) was processed: none for a rule outside of any section.
C19_EntryFlagsConsistent ==
    \A t \in DOMAIN line2flag :
        LET flags == line2flag[t]
            k == line2number[t]
        IN  /\ ~(HasFlag(flags, PSL_FLAG_WILDCARD) /\ HasFlag(flags, PSL_FLAG_EXCEPTION))
            /\ ~(HasFlag(flags, PSL_FLAG_ICANN) /\ HasFlag(flags, PSL_FLAG_PRIVATE))
            /\ k \in DOMAIN trace
            /\ Unprefixed(LineText(k)) = t
            /\ SectionOf(flags) = trace[k].before
            /\ trace[k].before \in {0, PSL_FLAG_ICANN, PSL_FLAG_PRIVATE}

\* '*.foo.bar' outside of any section, then '!foo.bar' in the PRIVATE
\* section: the entry of foo.bar carries Private and Exception, and no
\* longer Wildcard
C19_Witness ==
    /\ lines = <<WILD_FOO_BAR, BEGIN_PRIVATE, EXC_FOO_BAR>>
    /\ line2flag[FOO_BAR] = PSL_FLAG_PRIVATE + PSL_FLAG_EXCEPTION
    /\ line2number[FOO_BAR] = 3

-----------------------------------------------------------------------------
(* Properties of the label check *)

EmptyLabel == "Leading/trailing or multiple dot"
PunycodeFound == "Punycode found"
DoubleMinus == "Double minus found"
IllegalCharacter == "Illegal character"
LabelMsgs == {EmptyLabel, PunycodeFound, DoubleMinus, IllegalCharacter}

\* the error of a label: that of the first case the label matches
LabelCase(lab) ==
    CASE lab = <<>> -> <<EmptyLabel>>
      [] lab # <<>> /\ Len(lab) >= 4 /\ SubSeq(lab, 1, 4) = <<"x", "n", "-", "-">>
            -> <<PunycodeFound>>
      [] \E i \in 1..(Len(lab) - 1) : lab[i] = "-" /\ lab[i + 1] = "-"
            -> <<DoubleMinus>>
      [] \E i \in DOMAIN lab :
            /\ IsAscii(lab[i])
            /\ lab[i] \notin Range(UPPER) \cup Range(LOWER) \cup DIGITS \cup {"-"}
            -> <<IllegalCharacter>>
      [] OTHER -> <<>>

\* the rule line j reached the label check
ReachedLabels(j) ==
    /\ IsRuleLine(j) /\ Processed(j)
    /\ Decodable(LineText(j)) /\ ~BothPrefixes(LineText(j))

\* C20: a rule that reaches the label check gets, for each of its labels in
\* turn, the error of the first case the label matches (empty, 'xn--'
\* prefix, '--', an ASCII character that is neither alphanumeric nor '-')
\* and none for a label that matches no case: at most one error per label,
\* and as many label errors as offending labels.
C20_OneErrorPerLabel ==
    \A j \in DOMAIN trace :
        ReachedLabels(j) =>
            LET labels == Split(Unprefixed(LineText(j)))
                got == SelectSeq(trace[j].diags, LAMBDA d : d.msg \in LabelMsgs)
            IN  /\ [i \in DOMAIN got |-> got[i].msg]
                      = Concat([i \in DOMAIN labels |-> LabelCase(labels[i])])
                /\ Len(got) = Cardinality({i \in DOMAIN labels : LabelCase(labels[i]) # <<>>})
                /\ \A i \in DOMAIN got : got[i].sev = "error" /\ got[i].nline = j

\* 'xn--a--b_' gives the Punycode error alone, 'a..b_' one error for the
\* empty label and one for 'b_', the e-acute rule none
C20_Witness ==
    /\ lines = <<BEGIN_ICANN, XN_DOUBLE_MINUS_ILLEGAL, DOUBLE_DOT_ILLEGAL, E_ACUTE_MINUS_COM>>
    /\ [i \in DOMAIN out |-> <<out[i].nline, out[i].msg>>]
          = << <<2, PunycodeFound>>, <<3, EmptyLabel>>, <<3, IllegalCharacter>> >>

-----------------------------------------------------------------------------
(* Properties of rules outside of a section *)

OutsideOfSection == "Rule outside of section"

\* the line a step of the scan has read, and what was printed for it
LineRead == lines'[Len(lines')]
DiagsRead == trace'[Len(trace')].diags

\* what the pass over the line l, a rule, gives when the section is sec and
\* the registry is that of the current state
InSection(sec, l) ==
    RuleLineIn(sec, Strip(l), ShownLine(l), WhitespaceDiags(l, nline + 1), nline + 1)

\* a step of the scan that reads a rule outside of any section
ReadsRuleOutside ==
    /\ pc = "scan" /\ section = 0
    /\ Len(lines') = Len(lines) + 1
    /\ Strip(LineRead) # <<>> /\ Slice(Strip(LineRead), 0, 2) # <<"/", "/">>

\* C21: a rule line read while the section is Outside gets exactly one 'rule
\* outside of section' error, and besides it exactly the diagnostics, in
\* the same order, that the same line gets with the same registry inside
\* the ICANN or the PRIVATE section; the pass ends in the same way and
\* leaves the same registry keys and line numbers.
C21_OutsideAddsOneError ==
    [][ReadsRuleOutside =>
          /\ NumMsg(DiagsRead, OutsideOfSection) = 1
          /\ \A sec \in {PSL_FLAG_ICANN, PSL_FLAG_PRIVATE} :
                /\ SelectSeq(DiagsRead, LAMBDA d : d.msg # OutsideOfSection)
                      = InSection(sec, LineRead).diags
                /\ ~HasMsg(InSection(sec, LineRead).diags, OutsideOfSection)
                /\ exception' = InSection(sec, LineRead).raised
                /\ line2number' = InSection(sec, LineRead).line2number
                /\ DOMAIN line2flag' = DOMAIN InSection(sec, LineRead).line2flag
    ]_vars

\* '*.foo.bar', then ' Com' and '!a.foo.bar' outside of any section: each
\* has the error, ' Com' besides its whitespace warning and its lowercase
\* error
C21_Witness ==
    /\ lines = <<WILD_FOO_BAR, SPACE_UPPER_COM, EXC_A_FOO_BAR>>
    /\ [i \in DOMAIN out |-> <<out[i].nline, out[i].msg>>]
          = << <<1, OutsideOfSection>>,
               <<2, "Leading/Trailing whitespace">>, <<2, OutsideOfSection>>,
               <<2, NotLower>>,
               <<3, OutsideOfSection>> >>

-----------------------------------------------------------------------------
(* C22: comment lines that are not an accepted transition.                 *)

\* the stripped line is the transition the section sec accepts
Accepted(sec, t) ==
    \/ sec = 0 /\ t \in {BEGIN_ICANN, BEGIN_PRIVATE}
    \/ sec = PSL_FLAG_ICANN /\ t = END_ICANN
    \/ sec = PSL_FLAG_PRIVATE /\ t = END_PRIVATE

\* the line has '===BEGIN' or '===END' somewhere in it
CarriesMarker(t) == Contains(t, MARK_BEGIN) \/ Contains(t, MARK_END)

\* the line has '===BEGIN' at characters 3..10 or '===END' at characters 3..8
MarkerAtThree(t) == Slice(t, 3, 11) = MARK_BEGIN \/ Slice(t, 3, 9) = MARK_END

\* this step reads a comment line
ReadsComment ==
    /\ pc = "scan"
    /\ Len(lines') = Len(lines) + 1
    /\ Slice(Strip(LineRead), 0, 2) = <<"/", "/">>

SectionStateUnchanged ==
    UNCHANGED <<section, icann_sections, private_sections,
                line2number, line2flag, group>>

UnexpectedMarker ==
    {"Unexpected begin of unknown section", "End of section without previous begin",
     "Unexpected begin of section: ", "Unexpected begin of section",
     "Unexpected end of section"}

\* C22, as claimed: a comment line carrying a '===BEGIN' or '===END' marker
\* that is not the transition accepted in the current section gives exactly
\* one error and leaves the section and the section counters unchanged; a
\* comment without a marker gives no diagnostic and no state change.
C22_MarkerCommentsOneError ==
    [][ReadsComment =>
          /\ (CarriesMarker(Strip(LineRead)) /\ ~Accepted(section, Strip(LineRead))) =>
                /\ Len(ErrorsOf(DiagsRead)) = 1
                /\ SectionStateUnchanged
          /\ ~CarriesMarker(Strip(LineRead)) =>
                /\ DiagsRead = <<>>
                /\ SectionStateUnchanged
    ]_vars

\* C22, amended: a comment line that is not the accepted transition leaves
\* the section, the counters, the registry and the group unchanged; it gives
\* exactly one error, an 'unexpected begin/end' one, when its stripped text
\* has '===BEGIN' at characters 3..10 or '===END' at characters 3..8, and no
\* error otherwise (a marker elsewhere in the comment is not seen); the only
\* other diagnostic of a comment line is the 'Leading/Trailing whitespace'
\* warning, given exactly when the line differs from its stripped text.
C22_MarkerAtThreeOneError ==
    [][ReadsComment =>
          /\ ~Accepted(section, Strip(LineRead)) =>
                /\ SectionStateUnchanged
                /\ Len(ErrorsOf(DiagsRead))
                      = (IF MarkerAtThree(Strip(LineRead)) THEN 1 ELSE 0)
                /\ \A i \in DOMAIN DiagsRead :
                      DiagsRead[i].sev = "error" => DiagsRead[i].msg \in UnexpectedMarker
          /\ Accepted(section, Strip(LineRead)) => ErrorsOf(DiagsRead) = <<>>
          /\ Len(WarningsOf(DiagsRead))
                = (IF LineRead # Strip(LineRead) THEN 1 ELSE 0)
          /\ \A i \in DOMAIN DiagsRead :
                DiagsRead[i].sev = "warning" =>
                    DiagsRead[i].msg = "Leading/Trailing whitespace"
    ]_vars

\* Inside the ICANN section: an END without a name, a comment with a
\* trailing blank and a marker without the blank after '//'.
C22_Witness ==
    /\ lines = <<BEGIN_ICANN, UNKNOWN_END, COMMENT_SPACE, NOSPACE_BEGIN>>
    /\ section = PSL_FLAG_ICANN /\ icann_sections = 1 /\ private_sections = 0
    /\ [i \in DOMAIN out |-> <<out[i].nline, out[i].msg>>]
          = << <<2, "Unexpected end of section">>,
               <<3, "Leading/Trailing whitespace">> >>

-----------------------------------------------------------------------------
(* check_order (src/linter/pslint.py), called on a group that          *)
(* group.append built, with error() called in between.                     *)

\* The longest group that check_order is given.
MaxGroup == 3
\* The most calls of error() before check_order.
MaxErrors == 1

\* ord(c), for the characters of the groups
CodePoint(c) ==
    IF c \in Range(LOWER) THEN 96 + (CHOOSE i \in DOMAIN LOWER : LOWER[i] = c)
    ELSE IF c \in Range(UPPER) THEN 64 + (CHOOSE i \in DOMAIN UPPER : UPPER[i] = c)
    ELSE CASE c = "!" -> 33 [] c = "*" -> 42 [] c = "-" -> 45 [] c = "_" -> 95

\* a < b for two strings: by code point, a proper prefix being smaller
RECURSIVE StrLess(_, _)
StrLess(a, b) ==
    IF b = <<>> THEN FALSE
    ELSE IF a = <<>> THEN TRUE
    ELSE IF a[1] # b[1] THEN CodePoint(a[1]) < CodePoint(b[1])
    ELSE StrLess(Tail(a), Tail(b))

\* a < b for two lists of strings
RECURSIVE ListLess(_, _)
ListLess(a, b) ==
    IF b = <<>> THEN FALSE
    ELSE IF a = <<>> THEN TRUE
    ELSE IF a[1] # b[1] THEN StrLess(a[1], b[1])
    ELSE ListLess(Tail(a), Tail(b))

psl_key(s) ==
    IF s[1] = "*" THEN 0
    ELSE IF s[1] = "!" THEN 1
    ELSE 2

\* labels[-1][0] of the sort key raises IndexError on an empty last label
KeyRaises(labels) == labels[Len(labels)] = <<>>

\* lambda labels: (len(labels), psl_key(labels[-1][0]), labels)
SortKey(labels) ==
    <<Len(labels), psl_key(<<labels[Len(labels)][1]>>), labels>>

\* key(a) < key(b), as tuples
SortKeyLess(a, b) ==
    IF SortKey(a)[1] # SortKey(b)[1] THEN SortKey(a)[1] < SortKey(b)[1]
    ELSE IF SortKey(a)[2] # SortKey(b)[2] THEN SortKey(a)[2] < SortKey(b)[2]
    ELSE ListLess(SortKey(a)[3], SortKey(b)[3])

\* x put into the sorted list s, after the entries that are not greater
RECURSIVE InsertSorted(_, _)
InsertSorted(x, s) ==
    IF s = <<>> THEN <<x>>
    ELSE IF SortKeyLess(x, s[1]) THEN <<x>> \o s
    ELSE <<s[1]>> \o InsertSorted(x, Tail(s))

\* sorted(group, key = ...): stable
RECURSIVE Sorted(_)
Sorted(g) ==
    IF g = <<>> THEN <<>>
    ELSE InsertSorted(g[Len(g)], Sorted(SubSeq(g, 1, Len(g) - 1)))

\* print_psl(list): the domains with their labels in the original order
print_psl(list) == [i \in DOMAIN list |-> Join(Reversed(list[i]))]

IncorrectlySorted == "Incorrectly sorted group of domains"
TLDNotConsistent == "Domain group TLD is not consistent"

\* check_order(grp) with the flag skip: the warnings and the printed lines,
\* the exception that leaves it, and the flag afterwards.  The finally clause
\* empties the group on every way out.
check_order(grp, skip, n, echo) ==
    IF skip \/ Len(grp) < 2
    THEN [diags |-> <<>>, raised |-> "none", skip_order_check |-> FALSE,
          group |-> <<>>]
    ELSE
    LET d1 == IF \E i \in DOMAIN grp : grp[1][1] # grp[i][1]
              THEN <<Warning(n, TLDNotConsistent, 0, echo)>> ELSE <<>>
    IN  IF \E i \in DOMAIN grp : KeyRaises(grp[i])
        THEN [diags |-> d1, raised |-> "IndexError", skip_order_check |-> skip,
              group |-> <<>>]
        ELSE
        LET sorted_group == Sorted(grp)
            d2 == IF grp # sorted_group
                  THEN <<Warning(n, IncorrectlySorted, 0, echo),
                         Diag("print", n, "Correct sorting would be:", 0,
                              print_psl(sorted_group))>>
                  ELSE <<>>
        IN  [diags |-> d1 \o d2, raised |-> "none", skip_order_check |-> skip,
             group |-> <<>>]

\* group.append(list(reversed(line.split('.'))))
GroupAppend(line) ==
    /\ pc = "order"
    /\ Len(group) < MaxGroup
    /\ group' = Append(group, Reversed(Split(line)))
    /\ UNCHANGED <<pc, lines, nline, orig_line, warnings, errors, skip_order_check,
                   line2number, line2flag, section, icann_sections,
                   private_sections, out, trace, exception, exit_status, toolVars>>

\* error(msg) with the assignment skip_order_check = True in force
ReportErrorSkips(msg) ==
    /\ pc = "order"
    /\ errors < MaxErrors
    /\ out' = Append(out, Error(nline, msg, 0, orig_line))
    /\ errors' = errors + 1
    /\ skip_order_check' = TRUE
    /\ UNCHANGED <<pc, lines, nline, orig_line, warnings,
                   line2number, line2flag, group, section, icann_sections,
                   private_sections, trace, exception, exit_status, toolVars>>

\* error(msg): the flag is not assigned
ReportError(msg) ==
    /\ pc = "order"
    /\ errors < MaxErrors
    /\ out' = Append(out, Error(nline, msg, 0, orig_line))
    /\ errors' = errors + 1
    /\ UNCHANGED <<pc, lines, nline, orig_line, warnings, skip_order_check,
                   line2number, line2flag, group, section, icann_sections,
                   private_sections, trace, exception, exit_status, toolVars>>

\* check_order(group); trace keeps what it was called with and what it did.
CheckOrder ==
    /\ pc = "order"
    /\ LET r == check_order(group, skip_order_check, nline, orig_line)
       IN  /\ out' = out \o r.diags
           /\ warnings' = warnings + Count(r.diags, "warning")
           /\ skip_order_check' = r.skip_order_check
           /\ group' = r.group
           /\ exception' = r.raised
           /\ pc' = IF r.raised = "none" THEN "ordered" ELSE "exited"
           /\ exit_status' = IF r.raised = "none" THEN exit_status ELSE 1
           /\ trace' = Append(trace, [group |-> group, skip |-> skip_order_check,
                                     errors |-> errors, diags |-> r.diags,
                                     raised |-> r.raised])
    /\ UNCHANGED <<lines, nline, orig_line, errors, line2number, line2flag,
                   section, icann_sections, private_sections, toolVars>>

WILD_EXAMPLE_COM == <<"*",".","e","x","a","m","p","l","e",".","c","o","m">>
A_EXAMPLE_COM == <<"a",".","e","x","a","m","p","l","e",".","c","o","m">>
AB_EXAMPLE_COM == <<"a","b",".","e","x","a","m","p","l","e",".","c","o","m">>
EXC_A_EXAMPLE_COM == <<"!","a",".","e","x","a","m","p","l","e",".","c","o","m">>
ORG == <<"o","r","g">>
\* ".com": the leftmost label is empty
DOT_COM == <<".","c","o","m">>

GroupLines == {EXAMPLE_COM, WILD_EXAMPLE_COM, A_EXAMPLE_COM, AB_EXAMPLE_COM,
               EXC_A_EXAMPLE_COM, ORG, DOT_COM}

InitOrder == pc = "order" /\ LintIdle /\ ParseIdle /\ DnsIdle /\ DiffIdle /\ SuffixIdle /\ RunIdle

NextOrder ==
    \/ \E l \in GroupLines : GroupAppend(l)
    \/ ReportError("Rule must be lowercase")
    \/ CheckOrder

SpecOrder == InitOrder /\ [][NextOrder]_vars

\* the entries of the call k are in ascending order under the key (number of
\* labels, prefix class of the leftmost original label, label sequence)
LabelCount(e) == Len(e)
PrefixClass(e) ==
    LET leftmost == e[Len(e)]
    IN  IF leftmost # <<>> /\ leftmost[1] = "*" THEN 0
        ELSE IF leftmost # <<>> /\ leftmost[1] = "!" THEN 1
        ELSE 2
KeyLessEq(a, b) ==
    \/ LabelCount(a) < LabelCount(b)
    \/ LabelCount(a) = LabelCount(b) /\ PrefixClass(a) < PrefixClass(b)
    \/ LabelCount(a) = LabelCount(b) /\ PrefixClass(a) = PrefixClass(b)
          /\ (a = b \/ ListLess(a, b))
Ascending(g) == \A i \in 1..(Len(g) - 1) : KeyLessEq(g[i], g[i + 1])

\* [com,example,*], [com,example,a], [com,example]
OracleEntries ==
    {Reversed(Split(l)) : l \in {WILD_EXAMPLE_COM, A_EXAMPLE_COM, EXAMPLE_COM}}

\* C23: for a group of at least two entries with the skip flag clear,
\* check_order gives the 'Incorrectly sorted group of domains' warning if and
\* only if the group is not in ascending order under the key; of the entries
\* [com,example,*], [com,example,a], [com,example] only the order
\* [com,example], [com,example,*], [com,example,a] gives no warning.
C23_WarnsIffNotAscending ==
    \A k \in DOMAIN trace :
        (Len(trace[k].group) >= 2 /\ ~trace[k].skip) =>
            /\ HasMsg(trace[k].diags, IncorrectlySorted) <=> ~Ascending(trace[k].group)
            /\ (Range(trace[k].group) = OracleEntries /\ Len(trace[k].group) = 3) =>
                  (~HasMsg(trace[k].diags, IncorrectlySorted)
                     <=> trace[k].group = <<Reversed(Split(EXAMPLE_COM)),
                                            Reversed(Split(WILD_EXAMPLE_COM)),
                                            Reversed(Split(A_EXAMPLE_COM))>>)

-----------------------------------------------------------------------------
(* C24: the 'skip this check once' flag.                                   *)

\* the warnings check_order gives for the group g when it does not skip
TLDsDiffer(g) == \E i \in DOMAIN g : g[i][1] # g[1][1]
WarningsFor(g) ==
    {m \in {TLDNotConsistent, IncorrectlySorted} :
        /\ Len(g) >= 2
        /\ m = TLDNotConsistent => TLDsDiffer(g)
        /\ m = IncorrectlySorted =>
              ~Ascending(g) /\ \A i \in DOMAIN g : ~KeyRaises(g[i])}

\* C24, as claimed: the flag is set whenever an error is reported, so that
\* the next call of check_order gives no warning; that call clears the flag
\* and empties the group.
C24_ErrorSetsSkipFlag ==
    /\ (pc = "order" /\ errors > 0) => skip_order_check
    /\ \A k \in DOMAIN trace :
          trace[k].errors > 0 =>
              /\ trace[k].skip
              /\ WarningsOf(trace[k].diags) = <<>>
              /\ ~skip_order_check
              /\ group = <<>>

\* C24, amended: the flag is never set, error() leaves it clear; a call of
\* check_order after an error gives the warnings the group calls for, as it
\* does without an error; every call leaves the flag clear and empties the
\* group, also when it raises.
C24_ErrorLeavesFlagClear ==
    /\ ~skip_order_check
    /\ \A k \in DOMAIN trace :
          /\ ~trace[k].skip
          /\ {d.msg : d \in Range(WarningsOf(trace[k].diags))}
                = WarningsFor(trace[k].group)
          /\ group = <<>>

\* An error was reported, and check_order warned about the group
\* a.example.com, example.com all the same.
C24_Witness ==
    /\ Len(trace) = 1
    /\ trace[1].errors = 1
    /\ trace[1].group = <<Reversed(Split(A_EXAMPLE_COM)), Reversed(Split(EXAMPLE_COM))>>
    /\ [i \in DOMAIN out |-> out[i].msg]
          = <<"Rule must be lowercase", IncorrectlySorted, "Correct sorting would be:">>
    /\ out[3].echo = <<EXAMPLE_COM, A_EXAMPLE_COM>>
    /\ ~skip_order_check /\ group = <<>>

-----------------------------------------------------------------------------
(* C25: the group order check as wired in lint_psl.                        *)

RuleLinesRead == {k \in DOMAIN lines : IsRuleLine(k)}

\* the k-th rule line read
NthRuleLine(k) ==
    CHOOSE j \in RuleLinesRead : Cardinality({i \in RuleLinesRead : i <= j}) = k

\* C25: lint_psl never calls the group order check: no run gives the
\* warning 'Domain group TLD is not consistent' or 'Incorrectly sorted group of
\* domains', and nothing empties the group, at a blank line, at a section
\* marker or elsewhere: after every prefix of the input the group holds one
\* entry per rule line read so far, in the order read.
C25_GroupNeverChecked ==
    /\ \A i \in DOMAIN out : out[i].msg \notin {TLDNotConsistent, IncorrectlySorted}
    /\ ~skip_order_check
    /\ Len(group) = Cardinality(RuleLinesRead)
    /\ \A k \in DOMAIN group : group[k] = Reversed(Split(LineText(NthRuleLine(k))))

\* Two rule lines in the wrong order, a blank line and a comment after
\* them: the group still holds both and no warning about it was given.
C25_Witness ==
    /\ lines = <<EXAMPLE_COM, COM_TAB, BLANK, COMMENT>>
    /\ group = <<Reversed(Split(EXAMPLE_COM)), Reversed(Split(COM))>>
    /\ ~Ascending(group)
    /\ [i \in DOMAIN out |-> out[i].msg]
          = <<OutsideOfSection, "Leading/Trailing whitespace", OutsideOfSection>>

-----------------------------------------------------------------------------
(* suffix_is_less of trie_script.py and of tools/alphabet_script.py        *)

\* The longest label list that suffix_is_less is given.
MaxLabels == 3

\* s[-1] and s[:-1]
Last(s) == s[Len(s)]
Front(s) == SubSeq(s, 1, Len(s) - 1)

RECURSIVE suffix_is_less(_, _)
\* suffix_is_less without the test of len(suffix_2): a list that runs out
\* first is taken for the greater one as for the smaller one.
suffix_is_less_no_length(s1, s2) ==
    IF StrLess(Last(s2), Last(s1)) THEN FALSE
    ELSE IF Last(s1) = Last(s2)
        THEN IF Len(s1) > 1 /\ Len(s2) > 1
             THEN suffix_is_less(Front(s1), Front(s2))
             ELSE TRUE
    ELSE TRUE

\* trie_script.py: suffix_is_less(suffix_1, suffix_2)
suffix_is_less(s1, s2) ==
    IF StrLess(Last(s2), Last(s1)) THEN FALSE
    ELSE IF Last(s1) = Last(s2)
        THEN IF Len(s1) > 1
             THEN IF Len(s2) <= 1 THEN FALSE
                  ELSE suffix_is_less(Front(s1), Front(s2))
             ELSE TRUE
    ELSE TRUE

\* tools/alphabet_script.py: suffix_is_less(suffix_1, suffix_2).  The first
\* test is 'not suffix_2[-1] or not [suffix_1][-1]': [suffix_1][-1] is the
\* list suffix_1 itself, false only when suffix_1 is empty.
RECURSIVE alphabet_suffix_is_less(_, _)
alphabet_suffix_is_less(s1, s2) ==
    IF Last(s2) = <<>> \/ s1 = <<>> THEN TRUE
    ELSE IF StrLess(Last(s2), Last(s1)) THEN FALSE
    ELSE IF Last(s1) = Last(s2)
        THEN IF Len(s1) > 1
             THEN IF Len(s2) <= 1 THEN FALSE
                  ELSE alphabet_suffix_is_less(Front(s1), Front(s2))
             ELSE TRUE
    ELSE TRUE

\* psl_is_ordered of trie_script.py: suffix_is_less(psl[i], psl[i+1])
TrieSuffixIsLess ==
    /\ pc = "suffix"
    /\ less.trie = None
    /\ less' = [less EXCEPT !.trie = Some(suffix_is_less(suffix_1, suffix_2))]
    /\ UNCHANGED <<lintVars, icann_domains, parsed, attempt, replies, responses,
                   dns_status, current_file, pull_request_file, diff,
                   attempt_status, suffix_1, suffix_2, txtVars, runVars>>

\* check_submission_domains of tools/alphabet_script.py:
\* suffix_is_less(content[index].strip().split("."), ...)
AlphabetSuffixIsLess ==
    /\ pc = "suffix"
    /\ less.alphabet = None
    /\ less' = [less EXCEPT !.alphabet =
                    Some(alphabet_suffix_is_less(suffix_1, suffix_2))]
    /\ UNCHANGED <<lintVars, icann_domains, parsed, attempt, replies, responses,
                   dns_status, current_file, pull_request_file, diff,
                   attempt_status, suffix_1, suffix_2, txtVars, runVars>>

\* The labels: "", "a" and "ab"
Labels == {<<>>, <<"a">>, <<"a", "b">>}

\* What str.split(".") gives: lists of one label or more
LabelLists == UNION {[1..n -> Labels] : n \in 1..MaxLabels}

InitSuffix ==
    /\ pc = "suffix"
    /\ LintIdle /\ ParseIdle /\ DnsIdle /\ DiffIdle /\ RunIdle
    /\ suffix_1 \in LabelLists
    /\ suffix_2 \in LabelLists
    /\ less = [trie |-> None, alphabet |-> None]

NextSuffix ==
    \/ TrieSuffixIsLess
    \/ AlphabetSuffixIsLess

SpecSuffix == InitSuffix /\ [][NextSuffix]_vars

NoEmptyLabel(s) == \A i \in DOMAIN s : s[i] # <<>>

\* x <= y for two label sequences, found at the first index where they
\* differ; when there is none the shorter one, a prefix, is the smaller
LexLessEq(x, y) ==
    LET differ == {i \in 1..Min(Len(x), Len(y)) : x[i] # y[i]}
    IN  IF differ = {} THEN Len(x) <= Len(y)
        ELSE LET i == CHOOSE j \in differ : \A k \in differ : j <= k
             IN  StrLess(x[i], y[i])

\* C26: for label lists without an empty label, suffix_is_less, in both
\* scripts, returns True if and only if the reversed label sequence of the
\* first is lexicographically less than or equal to that of the second, a
\* proper prefix being smaller; so it is reflexive, total and antisymmetric
\* there, and the comparison by the first differing index gives its result.
C26_SuffixIsLessIsLexOrder ==
    (NoEmptyLabel(suffix_1) /\ NoEmptyLabel(suffix_2)) =>
        /\ \A r \in {less.trie, less.alphabet} :
              r # None =>
                  /\ r[1] = LexLessEq(Reversed(suffix_1), Reversed(suffix_2))
                  /\ suffix_1 = suffix_2 => r[1]
        /\ less.trie # None =>
              /\ less.trie[1] \/ suffix_is_less(suffix_2, suffix_1)
              /\ (less.trie[1] /\ suffix_is_less(suffix_2, suffix_1))
                    => suffix_1 = suffix_2
        /\ less.alphabet # None =>
              /\ less.alphabet[1] \/ alphabet_suffix_is_less(suffix_2, suffix_1)
              /\ (less.alphabet[1] /\ alphabet_suffix_is_less(suffix_2, suffix_1))
                    => suffix_1 = suffix_2

\* ab.a against a: equal last labels, the second list runs out, and both
\* scripts say the first is not less.
C26_Witness ==
    /\ suffix_1 = << <<"a", "b">>, <<"a">> >>
    /\ suffix_2 = << <<"a">> >>
    /\ less = [trie |-> Some(FALSE), alphabet |-> Some(FALSE)]

-----------------------------------------------------------------------------
(* check_psl_txt_record (private_domains_checker)                          *)

\* The text of a TXT record is a sequence of pieces: a double quote, or a
\* run of characters without one.
QUOTE == "\""
PULL == "github.com/publicsuffix/list/pull/"
PR_LINK == <<"https://", PULL, "1">>
QUOTED_PR_LINK == <<QUOTE, "https://", PULL, "1", QUOTE>>
SPF == <<"v=spf1 -all">>

\* s.strip('"')
RECURSIVE StripQuotes(_)
StripQuotes(s) ==
    IF s = <<>> THEN s
    ELSE IF Head(s) = QUOTE THEN StripQuotes(Tail(s))
    ELSE IF s[Len(s)] = QUOTE THEN StripQuotes(SubSeq(s, 1, Len(s) - 1))
    ELSE s

\* body.get("Answer", []), Answer being None when the key is absent
AnswerOf(body) == IF body.Answer = None THEN <<>> ELSE body.Answer[1]
\* record.get("data", "")
DataOf(record) == IF record.data = None THEN <<>> ELSE record.data[1]

\* check_psl_txt_record.make_request, on the list make_dns_request returned
txt_make_request(resp) ==
    IF None \in Range(resp) THEN "ERROR"
    ELSE LET google_txt == AnswerOf(resp[1][1])
             cloudflare_txt == AnswerOf(resp[2][1])
             google_txt_records == [i \in DOMAIN google_txt |-> DataOf(google_txt[i])]
             cloudflare_txt_records ==
                 [i \in DOMAIN cloudflare_txt |-> StripQuotes(DataOf(cloudflare_txt[i]))]
         IN  IF google_txt_records = cloudflare_txt_records
             THEN IF \E i \in DOMAIN google_txt_records :
                         PULL \in Range(google_txt_records[i])
                  THEN "valid" ELSE "invalid"
             ELSE "INCONSISTENT"

\* domain = domain.lstrip('*.').lstrip('!').encode('idna').decode('ascii')
TxtPrepare ==
    /\ pc = "txt"
    /\ LET r == IdnaEncode(LStripChars(LStripChars(psl_domain, {"*", "."}), {"!"}))
       IN  /\ psl_domain' = IF r.raised = "none" THEN r.value ELSE psl_domain
           /\ exception' = r.raised
           /\ pc' = IF r.raised = "none" THEN "txt_loop" ELSE "exited"
           /\ exit_status' = IF r.raised = "none" THEN exit_status ELSE 1
    /\ UNCHANGED <<lines, nline, orig_line, warnings, errors, skip_order_check,
                   line2number, line2flag, group, section, icann_sections,
                   private_sections, out, trace,
                   icann_domains, parsed, attempt, replies, responses, dns_status,
                   current_file, pull_request_file, diff, attempt_status,
                   psl_txt_status, suffixVars, runVars>>

\* One pass of the loop for _ in range(5) of check_psl_txt_record.
TxtAttempt(google, cloudflare) ==
    /\ pc = "txt_loop"
    /\ psl_txt_status = "running"
    /\ attempt < ATTEMPTS
    /\ attempt' = attempt + 1
    /\ replies' = <<google, cloudflare>>
    /\ responses' = make_dns_request(google, cloudflare)
    /\ LET status == txt_make_request(responses')
       IN  /\ attempt_status' = Append(attempt_status, status)
           /\ psl_txt_status' = IF status \notin {"ERROR", "INCONSISTENT"}
                                THEN status ELSE "running"
    /\ UNCHANGED <<lintVars, suffixVars, runVars, icann_domains, parsed, dns_status,
                   current_file, pull_request_file, diff, psl_domain>>

\* (the status of the last attempt is returned when the loop is over)
TxtGiveUpLastStatus ==
    /\ pc = "txt_loop"
    /\ psl_txt_status = "running"
    /\ attempt = ATTEMPTS
    /\ psl_txt_status' = attempt_status[Len(attempt_status)]
    /\ UNCHANGED <<lintVars, suffixVars, runVars, icann_domains, parsed, attempt,
                   replies, responses, dns_status, current_file, pull_request_file,
                   diff, attempt_status, psl_domain>>

\* The loop is over without a return.
TxtGiveUp ==
    /\ pc = "txt_loop"
    /\ psl_txt_status = "running"
    /\ attempt = ATTEMPTS
    /\ psl_txt_status' = "INCONSISTENT"
    /\ UNCHANGED <<lintVars, suffixVars, runVars, icann_domains, parsed, attempt,
                   replies, responses, dns_status, current_file, pull_request_file,
                   diff, attempt_status, psl_domain>>

\* The bodies of a TXT reply: no Answer, an empty one, a record with the
\* link of a pull request, bare and in quotes, another record, and a record
\* without data.
TxtBodies ==
    {[Answer |-> None], [Answer |-> Some(<<>>)],
     [Answer |-> Some(<<[data |-> Some(PR_LINK)]>>)],
     [Answer |-> Some(<<[data |-> Some(QUOTED_PR_LINK)]>>)],
     [Answer |-> Some(<<[data |-> Some(SPF)]>>)],
     [Answer |-> Some(<<[data |-> None]>>)]}
TxtReplies ==
    {Raised} \cup {Response(code, body) : code \in {200, 500}, body \in TxtBodies}

\* The raw entries check_psl_txt_record is given.
TxtDomains == {EXAMPLE_COM, WILD_EXAMPLE_COM, EXC_EXAMPLE_COM, A_DOT_DOT_COM}

InitTxt ==
    /\ pc = "txt"
    /\ LintIdle /\ ParseIdle /\ DiffIdle /\ SuffixIdle /\ RunIdle
    /\ attempt = 0
    /\ replies = <<>>
    /\ responses = <<>>
    /\ dns_status = "running"
    /\ attempt_status = <<>>
    /\ psl_domain \in TxtDomains
    /\ psl_txt_status = "running"

\* check_dns_status or check_psl_txt_record, one call
InitRetry == InitDns \/ InitTxt

NextRetry ==
    \/ \E google, cloudflare \in Replies : Attempt(google, cloudflare)
    \/ GiveUp
    \/ TxtPrepare
    \/ \E google, cloudflare \in TxtReplies : TxtAttempt(google, cloudflare)
    \/ TxtGiveUp

SpecRetry == InitRetry /\ [][NextRetry]_vars

Unsuccessful == {"ERROR", "INCONSISTENT"}

\* what the call has returned, "running" before it returns
Returned == IF pc = "dns" THEN dns_status ELSE psl_txt_status

-----------------------------------------------------------------------------
(* PSLPrivateDomainsProcessor.run: parse_psl_data, then process_domains    *)

\* The longest list, in lines, that fetch_psl_data returns.
MaxData == 5

\* The loop of parse_psl_data over the lines from index i on: mode is
\* "icann" when process_icann is set, "private" when process_private is,
\* else "none"; icann is self.icann_domains and private the list
\* raw_private_domains (parsed_private_domains is appended the same lines).
RECURSIVE ScanData(_, _, _, _, _)
ScanData(data_lines, i, mode, icann, private) ==
    IF i > Len(data_lines) THEN [icann_domains |-> icann, private |-> private]
    ELSE LET stripped_line == Strip(data_lines[i])
         IN  IF stripped_line = BEGIN_ICANN
             THEN ScanData(data_lines, i + 1, "icann", icann, private)
             ELSE IF stripped_line = BEGIN_PRIVATE
             THEN ScanData(data_lines, i + 1, "private", icann, private)
             ELSE IF StartsWith(stripped_line, <<"/", "/">>) \/ stripped_line = <<>>
             THEN ScanData(data_lines, i + 1, mode, icann, private)
             ELSE IF mode = "icann"
             THEN ScanData(data_lines, i + 1, mode, icann \cup {stripped_line}, private)
             ELSE IF mode = "private"
             THEN ScanData(data_lines, i + 1, mode, icann, Append(private, stripped_line))
             ELSE ScanData(data_lines, i + 1, mode, icann, private)

\* list(set(xs)): the distinct elements, in the order the set happens to
\* give them: for str it changes with the hash seed of the process, and it
\* is the same for two sets built from the same sequence of strings.
ListOfSet(S) == {f \in [1..Cardinality(S) -> S] : Range(f) = S}

\* zip(xs, ys): as long as the shorter one
Zip(xs, ys) == [i \in 1..Min(Len(xs), Len(ys)) |-> <<xs[i], ys[i]>>]

\* parse_psl_data(psl_data)
ParsePslData ==
    /\ pc = "run"
    /\ LET scan == ScanData(psl_data, 1, "none", icann_domains, <<>>)
           parses == [i \in DOMAIN scan.private |->
                         parse_domain(scan.icann_domains, scan.private[i])]
           failed == {i \in DOMAIN parses : parses[i].raised # "none"}
       IN  /\ icann_domains' = scan.icann_domains
           /\ IF failed # {}
              THEN /\ exception' =
                          parses[CHOOSE i \in failed : \A j \in failed : i <= j].raised
                   /\ pc' = "exited"
                   /\ exit_status' = 1
                   /\ UNCHANGED <<raw_domains, domains>>
              ELSE /\ raw_domains' \in ListOfSet(Range(scan.private))
                   /\ domains' \in ListOfSet({parses[i].value : i \in DOMAIN parses})
                   /\ [i \in DOMAIN parses |-> parses[i].value] = scan.private
                         => domains' = raw_domains'
                   /\ pc' = "parsed"
                   /\ UNCHANGED <<exception, exit_status>>
    /\ UNCHANGED <<lines, nline, orig_line, warnings, errors, skip_order_check,
                   line2number, line2flag, group, section, icann_sections,
                   private_sections, out, trace,
                   parsed, attempt, replies, responses, dns_status,
                   current_file, pull_request_file, diff, attempt_status,
                   suffixVars, txtVars, psl_data, data>>

\* process_domains(raw_domains, domains): of each row the entry it is filed
\* under and the argument of each of its checks (what the checks answer
\* comes from the network); the preparation of the domain in
\* check_psl_txt_record can raise.
ProcessDomains ==
    /\ pc = "parsed"
    /\ LET pairs == Zip(raw_domains, domains)
           failed == {i \in DOMAIN pairs :
                         IdnaEncode(Unmarked(pairs[i][1])).raised # "none"}
           done == IF failed = {} THEN Len(pairs)
                   ELSE (CHOOSE i \in failed : \A j \in failed : i <= j) - 1
       IN  /\ data' = IF failed # {} THEN data
                      ELSE [i \in 1..done |->
                               [psl_entry |-> pairs[i][2],
                                top_level_domain |-> pairs[i][2],
                                whois_of |-> pairs[i][2],
                                dns_status_of |-> pairs[i][2],
                                psl_txt_status_of |-> pairs[i][1]]]
           /\ exception' = IF failed = {} THEN exception ELSE "UnicodeError"
           /\ pc' = IF failed = {} THEN "processed" ELSE "exited"
           /\ exit_status' = IF failed = {} THEN exit_status ELSE 1
    /\ UNCHANGED <<lines, nline, orig_line, warnings, errors, skip_order_check,
                   line2number, line2flag, group, section, icann_sections,
                   private_sections, out, trace,
                   icann_domains, parsed, attempt, replies, responses, dns_status,
                   current_file, pull_request_file, diff, attempt_status,
                   suffixVars, txtVars, psl_data, raw_domains, domains>>

A_COM == <<"a",".","c","o","m">>
B_A_COM == <<"b",".","a",".","c","o","m">>
C_COM == <<"c",".","c","o","m">>

DataLines == {BEGIN_ICANN, COM, BEGIN_PRIVATE, A_COM, B_A_COM, C_COM}

InitRun ==
    /\ pc = "run"
    /\ LintIdle /\ ParseIdle /\ DnsIdle /\ DiffIdle /\ SuffixIdle
    /\ psl_data \in UNION {[1..n -> DataLines] : n \in 0..MaxData}
    /\ raw_domains = <<>>
    /\ domains = <<>>
    /\ data = <<>>

NextRun ==
    \/ ParsePslData
    \/ ProcessDomains

SpecRun == InitRun /\ [][NextRun]_vars

\* C28: in the run pipeline every row of process_domains combines a raw
\* private entry with the parsed domain of that same entry, and every
\* distinct raw private entry that parse_psl_data returned has a row.
C28_RowsPairSameEntry ==
    pc = "processed" =>
        /\ \A i \in DOMAIN data :
              /\ data[i].psl_txt_status_of \in Range(raw_domains)
              /\ data[i].dns_status_of
                    = parse_domain(icann_domains, data[i].psl_txt_status_of).value
              /\ data[i].whois_of = data[i].dns_status_of
        /\ \A entry \in Range(raw_domains) :
              \E i \in DOMAIN data : data[i].psl_txt_status_of = entry

====
